---- MODULE Spec2Model ----
(***************************************************************************)
(* State-machine model of the openlet-research question pipeline:         *)
(*   - parse_llm_output of demo/functions/parser.py and of question.py,    *)
(*   - the question-generation callers of both parsers,                    *)
(*   - the quiz callables of demo/functions/main.py,                       *)
(*   - the best-match aligners of eval.py.                                 *)
(* Strings are sequences of one-character strings.                         *)
(***************************************************************************)
EXTENDS Integers, Sequences, FiniteSets, TLC

VARIABLES
    \* question extraction
    hasContent,  \* the LLM response carries a message content
    text,        \* the message content, the output handed to parse_llm_output
    call,        \* the entry point that was called on the text
    demoOut,     \* result of parser.py parse_llm_output
    evalOut,     \* result of question.py parse_llm_output
    demoGen,     \* quiz document fields written by _generate_questions_async
    evalGen,     \* progress and result of question.py generate_questions
    \* quiz callables
    quiz,        \* the quiz document quizzes/{QuizId}
    attempts,    \* the documents of its attempts subcollection
    reqs,        \* the submit_quiz_answers calls and how far each has got
    playerResp,  \* what the last get_quiz_for_player call returned, and to whom
    \* evaluation
    sample,      \* one sample: reference and candidate counts and the pairwise scores
    evaluated,   \* what evaluate_sample returned for it
    \* aggregation by source
    batch,       \* the samples of one run: id, source and scores of each
    sampleResults,  \* eval.py main's results: the records evaluate_sample returned so far
    source_metrics,  \* what compute_source_metrics returned
    \* question.py main: the worker pool
    data,        \* the input items, in file order
    num_sets,    \* args.num_sets
    outcome,     \* which jobs generate_questions fails in
    job_results, \* the tuples of the completed jobs, in completion order
    predictions,  \* the list written to predictions.json
    \* parser.py parse_knowledge_graph
    yaml_content, \* the YAML blob taken from the LLM output
    kgpc,         \* where parse_knowledge_graph stands
    kgCalls,      \* the calls it has made to yaml.safe_load and fix_broken_quotes
    kgData,       \* data: what yaml.safe_load returned
    kgOut,        \* what parse_knowledge_graph returned, or that it raised
    \* parser.py fix_broken_quotes
    yaml_string,  \* its argument
    fixed_string, \* its result
    \* the option-label stripping step
    option_text,  \* line[1:].strip() of an option line
    strip_results, \* the results of applying the stripping step, one after another
    \* eval.py: the optional corpus-level metrics
    HAVE_MAUVE,   \* the mauve module was imported
    HAVE_FBD,     \* calculate_fbd was imported
    metric_raises, \* the (source, metric) calls that raise an exception
    metric_calls,  \* the calls compute_source_metrics made to mauve and FBD
    \* get_attempt_result
    attemptResp,  \* what the last get_attempt_result call returned, and to whom
    \* the quiz pipeline: process_ocr, extract_info, generate_questions
    pipeDoc, \* the quiz document the three Firestore triggers work on
    inbox, \* per trigger function, the update events delivered to it and not yet handled
    acted, \* the events a handler went past its status check on, with the handler
    extCalls, \* the external calls made: OCR, the two LLM calls, the file clean-up
    cleanup, \* the file clean-up of _generate_questions_async is still to run
    edits,  \* updates made by the client that leave the status alone
    \* perform_ocr of ocr_api.py
    image_path, \* the image_path argument of perform_ocr
    ocr_max_retries, \* the max_retries argument of perform_ocr
    retry_count, \* retry_count of perform_ocr
    ocr_pc, \* position of perform_ocr: idle, loop, returned
    ocr_log, \* what each pass of the loop met, in order
    ocr_return  \* the value perform_ocr returned

parseVars == <<hasContent, text, call, demoOut, evalOut, demoGen, evalGen>>

quizVars == <<quiz, attempts, reqs, playerResp>>

evalVars == <<sample, evaluated>>

aggVars == <<batch, sampleResults, source_metrics>>

\* the subsystems added after the first three
poolVars == <<data, num_sets, outcome, job_results, predictions>>

kgVars == <<yaml_content, kgpc, kgCalls, kgData, kgOut>>

fixVars == <<yaml_string, fixed_string>>

auxVars == <<aggVars, poolVars, kgVars, fixVars>>

stripVars == <<option_text, strip_results>>

\* the subsystems added last
corpusVars == <<HAVE_MAUVE, HAVE_FBD, metric_raises, metric_calls>>

resultVars == <<attemptResp>>

pipeVars == <<pipeDoc, inbox, acted, extCalls, cleanup, edits>>

ocrVars == <<image_path, ocr_max_retries, retry_count, ocr_pc, ocr_log, ocr_return>>

lateVars == <<stripVars, corpusVars, resultVars, pipeVars, ocrVars>>

vars == <<parseVars, quizVars, evalVars, auxVars, lateVars>>

(***************************************************************************)
(* Bounds                                                                  *)
(***************************************************************************)
\* number of chunks an input text is made of
MaxChunks == 3

\* number of submit_quiz_answers calls
MaxCalls == 2

\* number of reference questions of a sample
MaxRefs == 2

\* number of candidate questions of a sample
MaxCands == 2

\* samples of one evaluation run
MaxBatch == 3

\* reference items of one sample of a run
MaxGroupRefs == 3

\* jobs of one question.py run: items times sets
MaxJobs == 4

\* pieces a YAML blob is made of
MaxPieces == 4

\* records of an entities or relationships list
MaxRecords == 2

\* well-formed questions of a text with headings of mixed depth
MaxQuestions == 3

\* samples in a run that computes the corpus-level metrics
MaxCorpusBatch == 2

\* updates a client makes to a quiz document while its pipeline runs
MaxEdits == 1

\* largest max_retries perform_ocr is called with
MaxOcrRetries == 2

(***************************************************************************)
(* Python str / re primitives                                              *)
(***************************************************************************)
\* characters matched by \s and removed by str.strip()
Whitespace == {" ", "\t", "\n", "\r"}

Digits == {"0", "1", "2", "3", "4", "5", "6", "7", "8", "9"}

UpperLetters == <<"A", "B", "C", "D", "E", "F", "G", "H", "I", "J", "K", "L", "M",
                  "N", "O", "P", "Q", "R", "S", "T", "U", "V", "W", "X", "Y", "Z">>

LowerLetters == <<"a", "b", "c", "d", "e", "f", "g", "h", "i", "j", "k", "l", "m",
                  "n", "o", "p", "q", "r", "s", "t", "u", "v", "w", "x", "y", "z">>

upperChar(c) ==
    IF \E i \in 1..26 : LowerLetters[i] = c
    THEN UpperLetters[CHOOSE i \in 1..26 : LowerLetters[i] = c]
    ELSE c

lowerChar(c) ==
    IF \E i \in 1..26 : UpperLetters[i] = c
    THEN LowerLetters[CHOOSE i \in 1..26 : UpperLetters[i] = c]
    ELSE c

\* str.upper()
upper(s) == [i \in 1..Len(s) |-> upperChar(s[i])]

\* str.lower()
lower(s) == [i \in 1..Len(s) |-> lowerChar(s[i])]

\* s[n:]
Drop(s, n) == SubSeq(s, n + 1, Len(s))

\* str.startswith(p)
startswith(s, p) == Len(s) >= Len(p) /\ SubSeq(s, 1, Len(p)) = p

\* length of the longest prefix of s made of characters of S (a greedy S* match)
RECURSIVE LeadRun(_, _)
LeadRun(s, S) ==
    IF s = <<>> \/ Head(s) \notin S THEN 0 ELSE 1 + LeadRun(Tail(s), S)

RECURSIVE TrailRun(_, _)
TrailRun(s, S) ==
    IF s = <<>> \/ s[Len(s)] \notin S THEN 0
    ELSE 1 + TrailRun(SubSeq(s, 1, Len(s) - 1), S)

\* str.strip()
strip(s) ==
    LET l == LeadRun(s, Whitespace)
    IN  IF l = Len(s) THEN <<>>
        ELSE SubSeq(s, l + 1, Len(s) - TrailRun(s, Whitespace))

\* str.split(sep), sep non-empty
RECURSIVE SplitFrom(_, _, _)
SplitFrom(s, sep, cur) ==
    IF s = <<>> THEN <<cur>>
    ELSE IF startswith(s, sep)
         THEN <<cur>> \o SplitFrom(Drop(s, Len(sep)), sep, <<>>)
         ELSE SplitFrom(Tail(s), sep, Append(cur, Head(s)))

split(s, sep) == SplitFrom(s, sep, <<>>)

\* str.replace(c, ""), c one character
remove(s, c) == SelectSeq(s, LAMBDA x : x # c)

\* sub in s
RECURSIVE contains(_, _)
contains(s, sub) ==
    IF Len(s) < Len(sub) THEN FALSE
    ELSE startswith(s, sub) \/ contains(Tail(s), sub)

\* re.sub(r"^#{lo,4}\s+", "###", s, flags=re.MULTILINE)
RECURSIVE SubHeadings(_, _, _)
SubHeadings(s, lineStart, lo) ==
    IF s = <<>> THEN <<>>
    ELSE LET h == LeadRun(s, {"#"})
             w == LeadRun(Drop(s, h), Whitespace)
         IN  IF lineStart /\ h >= lo /\ h <= 4 /\ w >= 1
             THEN <<"#", "#", "#">>
                    \o SubHeadings(Drop(s, h + w), s[h + w] = "\n", lo)
             ELSE <<Head(s)>> \o SubHeadings(Tail(s), Head(s) = "\n", lo)

\* re.sub(r"^\d+\.\s+", "", s)
StripOrdinal(s) ==
    LET d == LeadRun(s, Digits)
        w == LeadRun(Drop(s, d + 1), Whitespace)
    IN  IF d >= 1 /\ Len(s) > d /\ s[d + 1] = "." /\ w >= 1
        THEN Drop(s, d + 1 + w)
        ELSE s

\* re.sub(r"_{2,}", "_", s)
RECURSIVE CollapseUnderscores(_)
CollapseUnderscores(s) ==
    IF s = <<>> THEN <<>>
    ELSE LET u == LeadRun(s, {"_"})
         IN  IF u >= 2
             THEN <<"_">> \o CollapseUnderscores(Drop(s, u))
             ELSE <<Head(s)>> \o CollapseUnderscores(Tail(s))

\* re.sub(r"^[A-Da-d][.)/]?,?\s+", "", s)
StripLabel(s) ==
    IF s = <<>> \/ s[1] \notin {"A", "B", "C", "D", "a", "b", "c", "d"} THEN s
    ELSE LET p == IF Len(s) >= 2 /\ s[2] \in {".", ")", "/"} THEN 2 ELSE 1
             c == IF Len(s) > p /\ s[p + 1] = "," THEN p + 1 ELSE p
             w == LeadRun(Drop(s, c), Whitespace)
         IN  IF w >= 1 THEN Drop(s, c + w) ELSE s

\* re.match(r"^>\s*[A-Da-d]\s*$", line)
MatchAnswer(line) ==
    /\ startswith(line, <<">">>)
    /\ LET r == Drop(line, 1 + LeadRun(Tail(line), Whitespace))
       IN  /\ r # <<>>
           /\ r[1] \in {"A", "B", "C", "D", "a", "b", "c", "d"}
           /\ LeadRun(Tail(r), Whitespace) = Len(r) - 1

\* correct_map = {"A": 0, "B": 1, "C": 2, "D": 3}
correct_map == (<<"A">> :> 0) @@ (<<"B">> :> 1) @@ (<<"C">> :> 2) @@ (<<"D">> :> 3)

\* mutant: an unrecognized token falls back to the first letter
AnswerTokenDefaultA(line) ==
    LET t == upper(strip(remove(line, ">")))
    IN  IF t \in {<<"A">>, <<"B">>, <<"C">>, <<"D">>} THEN t ELSE <<"A">>

\* line.replace(">", "").strip().upper()
AnswerToken(line) == upper(strip(remove(line, ">")))

\* [line.strip() for line in block.strip().split("\n") if line.strip()]
BlockLines(block) ==
    LET raw == split(strip(block), <<"\n">>)
        stripped == [i \in 1..Len(raw) |-> strip(raw[i])]
    IN  SelectSeq(stripped, LAMBDA l : l # <<>>)

\* normalized_output.strip().split("###")
QuestionBlocks(output, lo) ==
    split(strip(SubHeadings(output, TRUE, lo)), <<"#", "#", "#">>)

\* mutant: the option-line test is left out of the block filter
HasOptionsAlways(lines) == TRUE

\* any(line.startswith("-") for line in lines)
HasOptions(lines) == \E i \in 1..Len(lines) : startswith(lines[i], <<"-">>)

\* any(line.startswith(">") and re.match(r"^>\s*[A-Da-d]\s*$", line) for line in lines)
DemoHasAnswer(lines) ==
    \E i \in 1..Len(lines) : startswith(lines[i], <<">">>) /\ MatchAnswer(lines[i])

\* any(line.startswith(">") for line in lines)
EvalHasAnswer(lines) == \E i \in 1..Len(lines) : startswith(lines[i], <<">">>)

\* option_text = line[1:].strip(); option_text = re.sub(label, "", option_text)
OptionText(line) == StripLabel(strip(Tail(line)))

\* content = lines[0].strip(); ordinal prefix removed; underscore runs collapsed
Content(lines) == CollapseUnderscores(StripOrdinal(strip(lines[1])))

ExplanationKey == <<"e", "x", "p", "l", "a", "n", "a", "t", "i", "o", "n", ":">>

DefaultExplanation == <<"N", "o", " ", "e", "x", "p", "l", "a", "n", "a", "t", "i", "o", "n", " ", "p", "r", "o", "v", "i", "d", "e", "d", ".">>

\* the longest prefix of s without a newline (what .+ can match)
RECURSIVE UntilNewline(_)
UntilNewline(s) ==
    IF s = <<>> \/ Head(s) = "\n" THEN <<>> ELSE <<Head(s)>> \o UntilNewline(Tail(s))

\* re.search(r">\s*explanation:\s*(.+)", line, re.IGNORECASE): group(1).strip(),
\* or the empty string when there is no match
RECURSIVE SearchExplanation(_)
SearchExplanation(line) ==
    IF line = <<>> THEN <<>>
    ELSE LET r == Drop(line, 1 + LeadRun(Tail(line), Whitespace))
             rest == Drop(r, Len(ExplanationKey))
             w == LeadRun(rest, Whitespace)
             \* \s* gives one character back to .+ when nothing follows it
             g == IF w < Len(rest) THEN UntilNewline(Drop(rest, w))
                  ELSE IF w >= 1 /\ rest[w] # "\n" THEN <<rest[w]>> ELSE <<>>
         IN  IF Head(line) = ">" /\ startswith(lower(r), ExplanationKey) /\ g # <<>>
             THEN strip(g)
             ELSE SearchExplanation(Tail(line))

\* for line in lines[answer_line_idx + 1:]: the first line that starts with ">"
\* and contains "explanation:" decides; then the default when nothing was captured
RECURSIVE FindExplanation(_, _)
FindExplanation(lines, from) ==
    IF from > Len(lines) THEN <<>>
    ELSE IF startswith(lines[from], <<">">>) /\ contains(lower(lines[from]), ExplanationKey)
         THEN SearchExplanation(lines[from])
         ELSE FindExplanation(lines, from + 1)

Explanation(lines, answer_line_idx) ==
    LET e == FindExplanation(lines, answer_line_idx + 2)
    IN  IF e = <<>> THEN DefaultExplanation ELSE e

\* parser.py: for idx, line in enumerate(lines[1:], start=1); idx is the 0-based
\* index of the line; answer_line = <<>> stands for None
RECURSIVE DemoScan(_, _, _)
DemoScan(lines, idx, st) ==
    IF idx >= Len(lines) THEN st
    ELSE LET line == lines[idx + 1]
         IN  DemoScan(lines, idx + 1,
                 IF startswith(line, <<">">>) /\ st.answer_line = <<>>
                 THEN IF AnswerToken(line) \in {<<"A">>, <<"B">>, <<"C">>, <<"D">>}
                      THEN [st EXCEPT !.answer_line = line, !.answer_line_idx = idx]
                      ELSE st
                 ELSE IF startswith(line, <<"-">>) /\ Len(st.options) < 4
                      THEN [st EXCEPT !.options = Append(@, OptionText(line))]
                      ELSE st)

\* parser.py: the body of the loop over question_blocks, for one block
DemoBlock(block) ==
    IF strip(block) = <<>> THEN [kind |-> "skip"]
    ELSE LET lines == BlockLines(block)
         IN  IF ~HasOptions(lines) \/ ~DemoHasAnswer(lines) THEN [kind |-> "skip"]
             ELSE LET st == DemoScan(lines, 1, [options |-> <<>>, answer_line |-> <<>>,
                                                answer_line_idx |-> -1])
                  IN  IF st.answer_line = <<>> THEN [kind |-> "drop"]
                      ELSE IF AnswerToken(st.answer_line) \notin DOMAIN correct_map
                           THEN [kind |-> "drop"]
                           ELSE [kind |-> "emit",
                                 content |-> Content(lines),
                                 options |-> st.options,
                                 correct |-> correct_map[AnswerToken(st.answer_line)],
                                 explanation |-> Explanation(lines, st.answer_line_idx)]

\* parser.py: the loop over question_blocks; question_id advances on append only.
\* Every element pairs the appended Question with the index of its block.
RECURSIVE DemoParseBlocks(_, _, _)
DemoParseBlocks(blocks, i, question_id) ==
    IF i > Len(blocks) THEN <<>>
    ELSE LET r == DemoBlock(blocks[i])
         IN  IF r.kind = "emit"
             THEN <<[blk |-> i,
                     q |-> [id |-> question_id, content |-> r.content,
                            options |-> r.options, correct |-> r.correct,
                            explanation |-> r.explanation, type |-> "General"]]>>
                    \o DemoParseBlocks(blocks, i + 1, question_id + 1)
             ELSE DemoParseBlocks(blocks, i + 1, question_id)

Questions(emitted) == [i \in 1..Len(emitted) |-> emitted[i].q]

Origins(emitted) == [i \in 1..Len(emitted) |-> emitted[i].blk]

\* question_id starting at 0 instead of 1
DemoParseIdsFromZero(output) == DemoParseBlocks(QuestionBlocks(output, 2), 1, 0)

\* parser.py parse_llm_output(output).questions
DemoParse(output) == DemoParseBlocks(QuestionBlocks(output, 2), 1, 1)

\* question.py: for line in lines[1:], stopping at the first line that starts with ">"
RECURSIVE EvalScan(_, _, _)
EvalScan(lines, i, st) ==
    IF i > Len(lines) THEN st
    ELSE IF startswith(lines[i], <<">">>) THEN [st EXCEPT !.answer_line = lines[i]]
    ELSE IF startswith(lines[i], <<"-">>) /\ Len(st.options) < 4
         THEN EvalScan(lines, i + 1, [st EXCEPT !.options = Append(@, OptionText(lines[i]))])
         ELSE EvalScan(lines, i + 1, st)

\* question.py: the body of the loop over question_blocks, for one block;
\* "raise" is the AttributeError of answer_line.replace when answer_line is None
EvalBlock(block) ==
    IF strip(block) = <<>> THEN [kind |-> "skip"]
    ELSE LET lines == BlockLines(block)
         IN  IF ~HasOptions(lines) \/ ~EvalHasAnswer(lines) THEN [kind |-> "skip"]
             ELSE LET st == EvalScan(lines, 2, [options |-> <<>>, answer_line |-> <<>>])
                  IN  IF st.answer_line = <<>> THEN [kind |-> "raise"]
                      ELSE IF AnswerToken(st.answer_line) \notin DOMAIN correct_map
                           THEN [kind |-> "drop"]
                           ELSE [kind |-> "emit",
                                 content |-> Content(lines),
                                 options |-> st.options,
                                 correct |-> correct_map[AnswerToken(st.answer_line)]]

RECURSIVE EvalParseBlocks(_, _)
EvalParseBlocks(blocks, i) ==
    IF i > Len(blocks) THEN <<>>
    ELSE LET r == EvalBlock(blocks[i])
         IN  IF r.kind = "emit"
             THEN <<[blk |-> i,
                     q |-> [content |-> r.content, options |-> r.options,
                            correct |-> r.correct, type |-> "General"]]>>
                    \o EvalParseBlocks(blocks, i + 1)
             ELSE EvalParseBlocks(blocks, i + 1)

\* question.py: an exception in any block leaves parse_llm_output without a result
EvalRaises(output) ==
    LET blocks == QuestionBlocks(output, 1)
    IN  \E i \in 1..Len(blocks) : EvalBlock(blocks[i]).kind = "raise"

\* question.py parse_llm_output(output), when it returns
EvalParse(output) == EvalParseBlocks(QuestionBlocks(output, 1), 1)

(***************************************************************************)
(* Input texts: concatenations of at most MaxChunks chunks                 *)
(***************************************************************************)
ChunkHeading == <<"#", "#", "#", " ", "Q", "\n">>

ChunkHeading1 == <<"#", " ", "Q", "\n">>

ChunkOption == <<"-", " ", "x", "\n">>

ChunkLabelled == <<"-", " ", "A", ".", " ", "y", "\n">>

ChunkFourOptions == <<"-", " ", "x", "\n", "-", " ", "y", "\n", "-", " ", "x", "\n", "-", " ", "y", "\n">>

ChunkAnswerA == <<">", " ", "A", "\n">>

ChunkAnswerd == <<">", " ", "d", "\n">>

ChunkAnswerE == <<">", " ", "E", "\n">>

ChunkNoToken == <<">", "\n">>

ChunkProse == <<"p", "\n">>

ChunkBlank == <<" ", "\n">>

ChunkQuestion == <<"#", "#", " ", "1", ".", " ", "Q", "_", "_", "\n", "-", " ", "x", "\n", ">", " ", "B", "\n">>

ChunkExplanation == <<">", " ", "E", "x", "p", "l", "a", "n", "a", "t", "i", "o", "n", ":", " ", "z", "\n">>

Chunks == {ChunkHeading, ChunkHeading1, ChunkOption, ChunkLabelled, ChunkFourOptions,
           ChunkAnswerA, ChunkAnswerd, ChunkAnswerE, ChunkNoToken, ChunkProse,
           ChunkBlank, ChunkQuestion, ChunkExplanation}

RECURSIVE Concat(_)
Concat(cs) == IF cs = <<>> THEN <<>> ELSE Head(cs) \o Concat(Tail(cs))

Texts == {Concat(cs) : cs \in UNION {[1..n -> Chunks] : n \in 0..MaxChunks}}

(***************************************************************************)
(* Question extraction: state machine                                      *)
(***************************************************************************)
NoResult == [status |-> "none", questions |-> <<>>, origin |-> <<>>]

NoDoc == [status |-> "generating_quiz", errorMessage |-> "", questions |-> <<>>]

\* the evaluation at rest
EvalIdle ==
    /\ sample = <<>>
    /\ evaluated = <<>>

\* the aggregation at rest
AggIdle ==
    /\ batch = <<>>
    /\ sampleResults = <<>>
    /\ source_metrics = <<>>

\* the worker pool at rest
PoolIdle ==
    /\ data = <<>>
    /\ num_sets = 0
    /\ outcome = <<>>
    /\ job_results = <<>>
    /\ predictions = <<>>

\* parse_knowledge_graph at rest
KgIdle ==
    /\ yaml_content = <<>>
    /\ kgpc = "idle"
    /\ kgCalls = <<>>
    /\ kgData = <<>>
    /\ kgOut = <<>>

\* fix_broken_quotes at rest
FixIdle ==
    /\ yaml_string = <<>>
    /\ fixed_string = <<>>

AuxIdle == AggIdle /\ PoolIdle /\ KgIdle /\ FixIdle

\* the stripping step at rest
StripIdle ==
    /\ option_text = <<>>
    /\ strip_results = <<>>

\* no optional metric installed
CorpusIdle ==
    /\ HAVE_MAUVE = FALSE
    /\ HAVE_FBD = FALSE
    /\ metric_raises = {}
    /\ metric_calls = {}

\* get_attempt_result at rest
ResultIdle ==
    /\ attemptResp = <<>>

\* the quiz pipeline: process_ocr, extract_info, generate_questions at rest
PipeIdle ==
    /\ pipeDoc = <<>>
    /\ inbox = <<>>
    /\ acted = <<>>
    /\ extCalls = <<>>
    /\ cleanup = FALSE
    /\ edits = 0

\* perform_ocr of ocr_api.py at rest
OcrIdle ==
    /\ image_path = <<>>
    /\ ocr_max_retries = 0
    /\ retry_count = 0
    /\ ocr_pc = "idle"
    /\ ocr_log = <<>>
    /\ ocr_return = <<>>

LateIdle == StripIdle /\ CorpusIdle /\ ResultIdle /\ PipeIdle /\ OcrIdle

\* the quiz callables at rest
QuizIdle ==
    /\ quiz = <<>>
    /\ attempts = {}
    /\ reqs = <<>>
    /\ playerResp = <<>>

ParseInit ==
    /\ LateIdle
    /\ QuizIdle
    /\ EvalIdle
    /\ AuxIdle
    /\ hasContent \in BOOLEAN
    /\ text \in Texts
    /\ ~hasContent => text = <<>>
    /\ call = "none"
    /\ demoOut = NoResult
    /\ evalOut = NoResult
    /\ demoGen = NoDoc
    /\ evalGen = [status |-> "idle", attempt |-> 0, output |-> <<>>, questions |-> <<>>]

\* question extraction at rest
ParseIdle ==
    /\ hasContent = FALSE
    /\ text = <<>>
    /\ call = "none"
    /\ demoOut = NoResult
    /\ evalOut = NoResult
    /\ demoGen = NoDoc
    /\ evalGen = [status |-> "idle", attempt |-> 0, output |-> <<>>, questions |-> <<>>]

\* parser.py parse_llm_output(text)
DemoParseCall ==
    /\ call = "none"
    /\ call' = "demo_parse"
    /\ LET emitted == DemoParse(text)
       IN  demoOut' = [status |-> "returned", questions |-> Questions(emitted),
                       origin |-> Origins(emitted)]
    /\ UNCHANGED <<lateVars, hasContent, text, evalOut, demoGen, evalGen, quizVars, evalVars, auxVars>>

\* question.py parse_llm_output(text)
EvalParseCall ==
    /\ call = "none"
    /\ call' = "eval_parse"
    /\ evalOut' = IF EvalRaises(text)
                  THEN [status |-> "raised", questions |-> <<>>, origin |-> <<>>]
                  ELSE LET emitted == EvalParse(text)
                       IN  [status |-> "returned", questions |-> Questions(emitted),
                            origin |-> Origins(emitted)]
    /\ UNCHANGED <<lateVars, hasContent, text, demoOut, demoGen, evalGen, quizVars, evalVars, auxVars>>

ParseFailedMessage == "Failed to parse questions from LLM output"

\* main.py _generate_questions_async, from the API response on:
\* .get("content", "").strip(), parse, and the update of the quiz document
GenerateDoc(present, content) ==
    LET llm_output == strip(IF present THEN content ELSE <<>>)
        questions == Questions(DemoParse(llm_output))
    IN  IF questions = <<>>
        THEN [status |-> "error", errorMessage |-> ParseFailedMessage, questions |-> <<>>]
        ELSE [status |-> "ready", errorMessage |-> "", questions |-> questions]

DemoGenerate ==
    /\ call = "none"
    /\ call' = "demo_generate"
    /\ demoGen' = GenerateDoc(hasContent, text)
    /\ UNCHANGED <<lateVars, hasContent, text, demoOut, evalOut, evalGen, quizVars, evalVars, auxVars>>

\* question.py generate_questions(..., max_retries=3)
max_retries == 3

\* responses the model may give when it is invoked again
RetryOutputs == {<<>>, ChunkQuestion, ChunkAnswerA \o ChunkOption}

\* one pass of the retry loop on the response `output`
GenerateAttempt(g, output, next) ==
    IF ~EvalRaises(output)
    THEN [status |-> "returned", attempt |-> g.attempt, output |-> output,
          questions |-> Questions(EvalParse(output))]
    ELSE IF g.attempt < max_retries - 1
         THEN [status |-> "running", attempt |-> g.attempt + 1, output |-> next,
               questions |-> <<>>]
         ELSE [status |-> "raised", attempt |-> g.attempt, output |-> output,
               questions |-> <<>>]

EvalGenerateStart ==
    /\ call = "none"
    /\ hasContent
    /\ call' = "eval_generate"
    /\ \E next \in RetryOutputs :
         evalGen' = GenerateAttempt(evalGen, text, next)
    /\ UNCHANGED <<lateVars, hasContent, text, demoOut, evalOut, demoGen, quizVars, evalVars, auxVars>>

EvalGenerateRetry ==
    /\ call = "eval_generate"
    /\ evalGen.status = "running"
    /\ \E next \in RetryOutputs :
         evalGen' = GenerateAttempt(evalGen, evalGen.output, next)
    /\ UNCHANGED <<lateVars, hasContent, text, call, demoOut, evalOut, demoGen, quizVars, evalVars, auxVars>>

ParseNext ==
    \/ DemoParseCall
    \/ EvalParseCall
    \/ DemoGenerate
    \/ EvalGenerateStart
    \/ EvalGenerateRetry

ParseSpec == ParseInit /\ [][ParseNext]_vars

(***************************************************************************)
(* Question extraction: properties                                         *)
(***************************************************************************)
Range(f) == {f[i] : i \in DOMAIN f}

IsOptionLine(line) == line # <<>> /\ line[1] = "-"

IsMarkedLine(line) == line # <<>> /\ line[1] = ">"

\* the characters of a line that are neither the marker nor whitespace
Token(line) == SelectSeq(line, LAMBDA c : c \notin Whitespace \cup {">"})

\* the line is marked with ">" and carries exactly one letter of A-D, in either case
DeclaresLetter(line) ==
    /\ IsMarkedLine(line)
    /\ Len(Token(line)) = 1
    /\ Token(line)[1] \in {"A", "B", "C", "D", "a", "b", "c", "d"}

\* the line is ">", then a single letter of A-D with only whitespace around it
IsLetterLine(line) ==
    /\ IsMarkedLine(line)
    /\ LET r == SelectSeq(Tail(line), LAMBDA c : c \notin Whitespace)
       IN  Len(r) = 1 /\ r[1] \in {"A", "B", "C", "D", "a", "b", "c", "d"}

LetterIndex(c) ==
    CASE c \in {"A", "a"} -> 0
      [] c \in {"B", "b"} -> 1
      [] c \in {"C", "c"} -> 2
      [] c \in {"D", "d"} -> 3

\* C1: every returned Question satisfies 0 <= correct < len(options)
C1_CorrectIndexInRange ==
    /\ \A i \in 1..Len(demoOut.questions) :
         /\ demoOut.questions[i].correct >= 0
         /\ demoOut.questions[i].correct < Len(demoOut.questions[i].options)
    /\ \A i \in 1..Len(evalOut.questions) :
         /\ evalOut.questions[i].correct >= 0
         /\ evalOut.questions[i].correct < Len(evalOut.questions[i].options)

\* a block without an option line, or without an answer line as the parser
\* recognizes one: parser.py wants ">" with a single letter A-D, question.py any
\* line that starts with ">"
LacksShape(block, strict) ==
    LET lines == BlockLines(block)
    IN  \/ ~ \E i \in 1..Len(lines) : IsOptionLine(lines[i])
        \/ ~ \E i \in 1..Len(lines) :
               IF strict THEN IsLetterLine(lines[i]) ELSE IsMarkedLine(lines[i])

\* C2: a block with no option line or no answer line emits no Question, and
\* such blocks neither add a record nor change the records of the other blocks
C2_NoRecordFromShapelessBlock ==
    /\ call = "demo_parse" =>
         LET blocks == QuestionBlocks(text, 2)
             shaped == SelectSeq(blocks, LAMBDA b : ~LacksShape(b, TRUE))
         IN  /\ \A i \in 1..Len(blocks) :
                  LacksShape(blocks[i], TRUE) => i \notin Range(demoOut.origin)
             /\ demoOut.questions = Questions(DemoParseBlocks(shaped, 1, 1))
    /\ call = "eval_parse" =>
         LET blocks == QuestionBlocks(text, 1)
             shaped == SelectSeq(blocks, LAMBDA b : ~LacksShape(b, FALSE))
         IN  /\ \A i \in 1..Len(blocks) :
                  LacksShape(blocks[i], FALSE) => i \notin Range(evalOut.origin)
             /\ evalOut.status = "returned" =>
                  evalOut.questions = Questions(EvalParseBlocks(shaped, 1))
             /\ evalOut.status = "raised" <=>
                  \E i \in 1..Len(shaped) : EvalBlock(shaped[i]).kind = "raise"

\* C2 witness: a parse returned a Question from a text that also holds a
\* non-blank block without the shape of a question
C2_Witness ==
    \/ /\ call = "demo_parse"
       /\ Len(demoOut.questions) >= 1
       /\ LET blocks == QuestionBlocks(text, 2)
          IN  \E i \in 1..Len(blocks) : strip(blocks[i]) # <<>> /\ LacksShape(blocks[i], TRUE)
    \/ /\ call = "eval_parse"
       /\ Len(evalOut.questions) >= 1
       /\ LET blocks == QuestionBlocks(text, 1)
          IN  \E i \in 1..Len(blocks) : strip(blocks[i]) # <<>> /\ LacksShape(blocks[i], FALSE)

\* the lines after the stem of a block
AfterStem(block) == Tail(BlockLines(block))

\* the index of the answer line among the lines after the stem, 0 when there is
\* none: for parser.py the first line that declares a letter, for question.py
\* the first line marked with ">"
AnswerLineIndex(ls, strict) ==
    LET cand == {k \in 1..Len(ls) : IF strict THEN DeclaresLetter(ls[k]) ELSE IsMarkedLine(ls[k])}
    IN  IF cand = {} THEN 0 ELSE CHOOSE k \in cand : \A j \in cand : k <= j

\* C3: every emitted Question carries the index of the letter its block's answer
\* line declares (A->0, B->1, C->2, D->3, either case); a block whose answer
\* line declares no such letter emits no Question
C3_CorrectIsDeclaredLetter ==
    /\ call = "demo_parse" =>
         LET blocks == QuestionBlocks(text, 2)
         IN  /\ \A i \in 1..Len(demoOut.questions) :
                  LET ls == AfterStem(blocks[demoOut.origin[i]])
                      k == AnswerLineIndex(ls, TRUE)
                  IN  /\ k > 0
                      /\ demoOut.questions[i].correct = LetterIndex(Token(ls[k])[1])
             /\ \A b \in 1..Len(blocks) :
                  (BlockLines(blocks[b]) = <<>> \/ AnswerLineIndex(AfterStem(blocks[b]), TRUE) = 0)
                     => b \notin Range(demoOut.origin)
    /\ call = "eval_parse" =>
         LET blocks == QuestionBlocks(text, 1)
         IN  /\ \A i \in 1..Len(evalOut.questions) :
                  LET ls == AfterStem(blocks[evalOut.origin[i]])
                      k == AnswerLineIndex(ls, FALSE)
                  IN  /\ k > 0
                      /\ DeclaresLetter(ls[k])
                      /\ evalOut.questions[i].correct = LetterIndex(Token(ls[k])[1])
             /\ \A b \in 1..Len(blocks) :
                  LET ls == IF BlockLines(blocks[b]) = <<>> THEN <<>> ELSE AfterStem(blocks[b])
                      k == AnswerLineIndex(ls, FALSE)
                  IN  (k = 0 \/ ~DeclaresLetter(ls[k])) => b \notin Range(evalOut.origin)

\* C3 witness: a lower-case d was mapped to index 3 while a block whose answer
\* line carries another token was dropped
C3_Witness ==
    \/ /\ call = "demo_parse"
       /\ \E i \in 1..Len(demoOut.questions) : demoOut.questions[i].correct = 3
       /\ text = ChunkHeading \o ChunkOption \o ChunkAnswerd
    \/ /\ call = "eval_parse"
       /\ evalOut.status = "returned"
       /\ evalOut.questions = <<>>
       /\ text = ChunkHeading \o ChunkOption \o ChunkAnswerE

\* C4: parse_llm_output returns normally for every input text
C4_ParseReturns ==
    /\ call = "demo_parse" => demoOut.status = "returned"
    /\ call = "eval_parse" => evalOut.status = "returned"

\* a present, non-blank text from which no Question is extracted
ZeroRecordTexts == {ChunkProse, ChunkHeading \o ChunkOption, ChunkHeading \o ChunkAnswerE}

\* C5: a missing, empty or whitespace-only text ends question extraction in a
\* failure that differs from the outcome of a present text without valid blocks
C5_EmptyInputDistinguished ==
    /\ (call = "demo_generate" /\ strip(text) = <<>>) =>
         /\ demoGen.status = "error"
         /\ \A t \in ZeroRecordTexts : GenerateDoc(TRUE, t) # demoGen
    /\ (call = "eval_generate" /\ strip(text) = <<>>) =>
         /\ evalGen.status = "raised"
         /\ \A t \in ZeroRecordTexts :
              GenerateAttempt([evalGen EXCEPT !.attempt = 0], t, t).questions # evalGen.questions

(***************************************************************************)
(* Quiz callables of demo/functions/main.py                                *)
(***************************************************************************)
Owner == "owner"

Users == {Owner, "u1"}

\* req.auth is None
NoAuth == "noauth"

QuizId == "q1"

\* quizId of a request: the stored quiz, an unknown id, the empty string
QuizIdInputs == {QuizId, "q2", ""}

\* user_answer is None
NoneAnswer == -1

\* two question lists that differ in `correct` and `explanation` only
QuestionsA ==
    << [id |-> 1, content |-> "c1", options |-> <<"o1", "o2">>, correct |-> 0,
        explanation |-> "e1", type |-> "General"],
       [id |-> 2, content |-> "c2", options |-> <<"o1", "o2", "o3">>, correct |-> 2,
        explanation |-> "e2", type |-> "General"] >>

QuestionsB ==
    << [id |-> 1, content |-> "c1", options |-> <<"o1", "o2">>, correct |-> 1,
        explanation |-> "f1", type |-> "General"],
       [id |-> 2, content |-> "c2", options |-> <<"o1", "o2", "o3">>, correct |-> 2,
        explanation |-> "f2", type |-> "General"] >>

QuestionLists == {QuestionsA, QuestionsB}

\* userAnswers of a request: question id -> selected option
AnswerSheets == {(1 :> 0) @@ (2 :> 2), (1 :> 7)}

ZeroMetrics ==
    [totalResponses |-> 0, avgScore |-> 0, highestScore |-> 0, lowestScore |-> 0,
     scoreDistribution |-> <<0, 0, 0, 0, 0>>]

QuizDocs ==
    [userId : {Owner}, title : {"T"}, questions : QuestionLists,
     isPublished : BOOLEAN, allowAnonymous : BOOLEAN, allowRedo : BOOLEAN,
     publicLevel : 0..4, knowledgeGraph : {"kg"}, status : {"ready"},
     metrics : {ZeroMetrics}, topPerformers : {<<>>}]

safe_fields ==
    {"id", "userId", "title", "description", "genre", "topics", "questions",
     "isPublished", "allowAnonymous", "publicLevel", "allowRedo", "timerEnabled",
     "timerDurationMinutes", "timerAutoSubmit", "timerWarningMinutes", "passage",
     "createdAt", "updatedAt"}

\* mutant: the questions are handed out as they are stored
SanitizeQuestionKeepAll(q) == q

\* get_quiz_for_player: sanitized_q
SanitizeQuestion(q) ==
    [id |-> q.id, content |-> q.content, options |-> q.options, type |-> q.type]

\* mutant: the publication check is left out
PlayerMayReadAlways(doc, auth) == TRUE

\* get_quiz_for_player: the publication check
PlayerMayRead(doc, auth) ==
    doc.isPublished \/ (auth # NoAuth /\ doc.userId = auth)

\* get_quiz_for_player(req) on the stored document doc
PlayerResponse(doc, auth, quiz_id) ==
    IF quiz_id = "" THEN [error |-> "invalid-argument"]
    ELSE IF quiz_id # QuizId THEN [error |-> "not-found"]
    ELSE IF ~PlayerMayRead(doc, auth) THEN [error |-> "permission-denied"]
    ELSE LET is_owner == auth # NoAuth /\ doc.userId = auth
             quiz_data ==
                 IF ~is_owner
                 THEN [doc EXCEPT !.questions =
                          [i \in 1..Len(doc.questions) |-> SanitizeQuestion(doc.questions[i])]]
                 ELSE doc
         IN  [k \in (DOMAIN quiz_data \cap safe_fields) \cup {"id"} |->
                 IF k = "id" THEN quiz_id ELSE quiz_data[k]]

PlayerInit ==
    /\ LateIdle
    /\ ParseIdle
    /\ EvalIdle
    /\ AuxIdle
    /\ quiz \in QuizDocs
    /\ attempts = {}
    /\ reqs = <<>>
    /\ playerResp = <<>>

GetQuizForPlayer ==
    /\ \E auth \in Users \cup {NoAuth}, quiz_id \in QuizIdInputs :
         playerResp' = <<[auth |-> auth, quizId |-> quiz_id,
                          result |-> PlayerResponse(quiz, auth, quiz_id)]>>
    /\ UNCHANGED <<lateVars, parseVars, evalVars, auxVars, quiz, attempts, reqs>>

PlayerNext == GetQuizForPlayer

PlayerSpec == PlayerInit /\ [][PlayerNext]_vars

\* the keys of every question of a response
QuestionKeys(result) ==
    UNION {DOMAIN result.questions[i] : i \in 1..Len(result.questions)}

IsError(result) == "error" \in DOMAIN result

\* C6: a caller who is not the owner never receives `correct` or `explanation`
\* (the response is the same for quizzes that differ in those fields only), and
\* an unpublished quiz is returned to its owner only
C6_PlayerSeesNoAnswers ==
    \A i \in 1..Len(playerResp) :
      LET r == playerResp[i]
      IN  ~IsError(r.result) =>
            /\ r.auth # quiz.userId =>
                 /\ QuestionKeys(r.result) \cap {"correct", "explanation"} = {}
                 /\ \A alt \in QuestionLists :
                      PlayerResponse([quiz EXCEPT !.questions = alt], r.auth, r.quizId)
                         = r.result
            /\ ~quiz.isPublished => r.auth = quiz.userId

\* C6 witness: a published quiz was returned to a caller who is not its owner
C6_Witness ==
    /\ Len(playerResp) = 1
    /\ ~IsError(playerResp[1].result)
    /\ playerResp[1].auth = "u1"
    /\ Len(playerResp[1].result.questions) = 2

(***************************************************************************)
(* submit_quiz_answers: one call is four steps, one per Firestore access   *)
(***************************************************************************)
NewCall == [pc |-> "new", attempt |-> <<>>, seen |-> {}, resp |-> <<>>]

Failed(code) == [pc |-> "done", attempt |-> <<>>, seen |-> {}, resp |-> [error |-> code]]

\* the validated answer of question q: int(user_answer) within the options, or None
UserAnswer(q, user_answers) ==
    IF q.id \notin DOMAIN user_answers THEN NoneAnswer
    ELSE IF user_answers[q.id] < 0 \/ user_answers[q.id] >= Len(q.options) THEN NoneAnswer
    ELSE user_answers[q.id]

\* results of the evaluation loop
Results(questions, user_answers) ==
    [i \in 1..Len(questions) |->
        LET user_answer == UserAnswer(questions[i], user_answers)
        IN  [questionId |-> questions[i].id,
             userAnswer |-> user_answer,
             isCorrect |-> user_answer # NoneAnswer /\ user_answer = questions[i].correct]]

CorrectCount(results) == Cardinality({i \in 1..Len(results) : results[i].isCorrect})

\* score = (correct_count / total * 100) if total > 0 else 0
Score(correct_count, total) == IF total > 0 THEN (correct_count * 100) \div total ELSE 0

\* mutant: the redo check is left out
AlreadySubmittedNever(docs, uid) == FALSE

\* attempts_ref.where("userId", "==", uid).limit(1).get() is not empty
AlreadySubmitted(docs, uid) == \E a \in docs : a.userId = uid

\* submit_quiz_answers up to the attempt record: the checks, in the order of the code
SubmitCheck(doc, docs, id, auth, quiz_id, is_anonymous, is_preview, user_answers) ==
    IF auth = NoAuth THEN Failed("unauthenticated")
    ELSE IF quiz_id = "" THEN Failed("invalid-argument")
    ELSE IF quiz_id # QuizId THEN Failed("not-found")
    ELSE IF ~doc.isPublished THEN Failed("permission-denied")
    ELSE IF is_anonymous /\ ~doc.allowAnonymous THEN Failed("permission-denied")
    ELSE IF doc.userId = auth /\ is_preview THEN Failed("invalid-argument")
    ELSE IF ~doc.allowRedo /\ ~is_anonymous /\ doc.userId # auth /\ AlreadySubmitted(docs, auth)
         THEN Failed("already-exists")
    ELSE IF doc.questions = <<>> THEN Failed("failed-precondition")
    ELSE LET results == Results(doc.questions, user_answers)
             total == Len(doc.questions)
         IN  [pc |-> "store",
              attempt |-> [id |-> id, userId |-> auth, displayName |-> "Guest",
                           isAnonymous |-> is_anonymous,
                           score |-> Score(CorrectCount(results), total),
                           total |-> total, correctCount |-> CorrectCount(results),
                           userAnswers |-> user_answers],
              seen |-> {},
              resp |-> <<>>]

\* the attempts with the highest score first, ties in stream order (by id)
RECURSIVE SortByScore(_)
SortByScore(docs) ==
    IF docs = {} THEN <<>>
    ELSE LET a == CHOOSE x \in docs :
                    \A y \in docs : x.score > y.score \/ (x.score = y.score /\ x.id <= y.id)
         IN  <<a>> \o SortByScore(docs \ {a})

RECURSIVE Sum(_)
Sum(xs) == IF xs = <<>> THEN 0 ELSE Head(xs) + Sum(Tail(xs))

Max(S) == CHOOSE x \in S : \A y \in S : x >= y

Min(S) == CHOOSE x \in S : \A y \in S : x <= y

\* score_ranges: [0-29%, 30-49%, 50-69%, 70-89%, 90-100%]
ScoreRange(score) ==
    IF score < 30 THEN 1 ELSE IF score < 50 THEN 2 ELSE IF score < 70 THEN 3
    ELSE IF score < 90 THEN 4 ELSE 5

\* _update_quiz_metrics: the metrics of the streamed attempts (avgScore as the
\* integer quotient)
Metrics(docs) ==
    IF docs = {} THEN ZeroMetrics
    ELSE LET sorted == SortByScore(docs)
             scores == [i \in 1..Len(sorted) |-> sorted[i].score]
         IN  [totalResponses |-> Cardinality(docs),
              avgScore |-> Sum(scores) \div Cardinality(docs),
              highestScore |-> Max(Range(scores)),
              lowestScore |-> Min(Range(scores)),
              scoreDistribution |->
                  [r \in 1..5 |-> Cardinality({a \in docs : ScoreRange(a.score) = r})]]

\* _update_quiz_metrics: top_performers, the first five of the sorted attempts
TopPerformers(docs) ==
    LET sorted == SortByScore(docs)
    IN  [i \in 1..(IF Len(sorted) < 5 THEN Len(sorted) ELSE 5) |->
            [attemptId |-> sorted[i].id, userId |-> sorted[i].userId,
             displayName |-> sorted[i].displayName, isAnonymous |-> sorted[i].isAnonymous,
             score |-> sorted[i].score, correctCount |-> sorted[i].correctCount,
             total |-> sorted[i].total]]

\* submit_quiz_answers: the response, built by public level
SubmitResponse(doc, attempt) ==
    LET public_level == doc.publicLevel
        results == Results(doc.questions, attempt.userAnswers)
        question(r) == doc.questions[CHOOSE j \in 1..Len(doc.questions) :
                                         doc.questions[j].id = r.questionId]
        base == [success |-> TRUE, publicLevel |-> public_level, attemptId |-> attempt.id]
        scores == IF public_level >= 1
                  THEN [score |-> attempt.score, correctCount |-> attempt.correctCount,
                        total |-> attempt.total]
                  ELSE <<>>
        detail == IF public_level >= 4
                  THEN [results |-> [i \in 1..Len(results) |->
                           [questionId |-> results[i].questionId,
                            userAnswer |-> results[i].userAnswer,
                            isCorrect |-> results[i].isCorrect,
                            correctAnswer |-> question(results[i]).correct,
                            explanation |-> question(results[i]).explanation]]]
                  ELSE IF public_level >= 3
                  THEN [results |-> [i \in 1..Len(results) |->
                           [questionId |-> results[i].questionId,
                            userAnswer |-> results[i].userAnswer,
                            isCorrect |-> results[i].isCorrect,
                            correctAnswer |-> question(results[i]).correct]]]
                  ELSE IF public_level >= 2
                  THEN [results |-> [i \in 1..Len(results) |->
                           [questionId |-> results[i].questionId,
                            isCorrect |-> results[i].isCorrect]]]
                  ELSE <<>>
    IN  base @@ scores @@ detail

SubmitInit ==
    /\ LateIdle
    /\ ParseIdle
    /\ EvalIdle
    /\ AuxIdle
    /\ quiz \in {d \in QuizDocs : d.questions = QuestionsA}
    /\ attempts = {}
    /\ reqs = [i \in 1..MaxCalls |-> NewCall]
    /\ playerResp = <<>>

\* the request arrives: quiz_ref.get(), the checks and the redo query
SubmitStart(i) ==
    /\ reqs[i].pc = "new"
    /\ i > 1 => reqs[i - 1].pc # "new"
    /\ \E auth \in Users \cup {NoAuth}, quiz_id \in QuizIdInputs,
          is_anonymous \in BOOLEAN, is_preview \in BOOLEAN, user_answers \in AnswerSheets :
         reqs' = [reqs EXCEPT ![i] =
                     SubmitCheck(quiz, attempts, i, auth, quiz_id, is_anonymous,
                                 is_preview, user_answers)]
    /\ UNCHANGED <<lateVars, parseVars, evalVars, auxVars, quiz, attempts, playerResp>>

\* attempt_ref.set(attempt)
SubmitStore(i) ==
    /\ reqs[i].pc = "store"
    /\ attempts' = attempts \cup {reqs[i].attempt}
    /\ reqs' = [reqs EXCEPT ![i].pc = "metrics"]
    /\ UNCHANGED <<lateVars, parseVars, evalVars, auxVars, quiz, playerResp>>

\* _update_quiz_metrics: quiz_ref.collection("attempts").stream()
MetricsRead(i) ==
    /\ reqs[i].pc = "metrics"
    /\ reqs' = [reqs EXCEPT ![i].pc = "update", ![i].seen = attempts]
    /\ UNCHANGED <<lateVars, parseVars, evalVars, auxVars, quiz, attempts, playerResp>>

\* _update_quiz_metrics: quiz_ref.update(...), then the response is returned
MetricsWrite(i) ==
    /\ reqs[i].pc = "update"
    /\ quiz' = [quiz EXCEPT !.metrics = Metrics(reqs[i].seen),
                            !.topPerformers = TopPerformers(reqs[i].seen)]
    /\ reqs' = [reqs EXCEPT ![i] = [pc |-> "done", attempt |-> <<>>, seen |-> {},
                                     resp |-> SubmitResponse(quiz, reqs[i].attempt)]]
    /\ UNCHANGED <<lateVars, parseVars, evalVars, auxVars, attempts, playerResp>>

SubmitNext ==
    \E i \in 1..MaxCalls :
        \/ SubmitStart(i)
        \/ SubmitStore(i)
        \/ MetricsRead(i)
        \/ MetricsWrite(i)

SubmitSpec == SubmitInit /\ [][SubmitNext]_vars

\* C7: with allowRedo = false, no authenticated user other than the owner has
\* more than one attempt stored for the quiz
C7_SingleAttemptWithoutRedo ==
    ~quiz.allowRedo =>
        \A u \in Users \ {quiz.userId} :
            Cardinality({a \in attempts : a.userId = u}) <= 1

(***************************************************************************)
(* get_attempt_result, and submit_quiz_answers as one step                 *)
(***************************************************************************)
\* attemptId of a request: 0 stands for a missing or empty id
AttemptIdInputs == 0..MaxCalls

\* get_attempt_result: the entry of results for question q
AttemptResultEntry(q, user_answers, public_level, is_owner) ==
    LET user_answer == IF q.id \in DOMAIN user_answers THEN user_answers[q.id] ELSE -1
        is_correct == user_answer = q.correct
        base == [questionId |-> q.id, userAnswer |-> user_answer]
    IN  IF is_owner
        THEN base @@ [isCorrect |-> is_correct, correctAnswer |-> q.correct,
                      explanation |-> q.explanation]
        ELSE base
             @@ (IF public_level >= 2 THEN [isCorrect |-> is_correct] ELSE <<>>)
             @@ (IF public_level >= 3 THEN [correctAnswer |-> q.correct] ELSE <<>>)
             @@ (IF public_level >= 4 THEN [explanation |-> q.explanation] ELSE <<>>)

\* get_attempt_result(req) on the stored quiz doc and its attempts docs
AttemptResult(doc, docs, auth, quiz_id, attempt_id) ==
    IF quiz_id = "" THEN [error |-> "invalid-argument"]
    ELSE IF attempt_id = 0 THEN [error |-> "invalid-argument"]
    ELSE IF quiz_id # QuizId THEN [error |-> "not-found"]
    ELSE IF ~\E a \in docs : a.id = attempt_id THEN [error |-> "not-found"]
    ELSE LET attempt_data == CHOOSE a \in docs : a.id = attempt_id
             is_owner == auth # NoAuth /\ doc.userId = auth
             is_attempt_creator == auth # NoAuth /\ attempt_data.userId = auth
             public_level == doc.publicLevel
         IN  IF ~is_owner /\ ~is_attempt_creator THEN [error |-> "permission-denied"]
             ELSE [attempt |-> [id |-> attempt_id, userId |-> attempt_data.userId,
                                displayName |-> attempt_data.displayName,
                                isAnonymous |-> attempt_data.isAnonymous,
                                score |-> attempt_data.score,
                                total |-> attempt_data.total,
                                correctCount |-> attempt_data.correctCount,
                                userAnswers |-> attempt_data.userAnswers],
                   quiz |-> [title |-> doc.title, publicLevel |-> public_level],
                   questions |->
                       [i \in 1..Len(doc.questions) |->
                           LET q == doc.questions[i]
                           IN  IF is_owner
                               THEN [id |-> q.id, content |-> q.content, options |-> q.options,
                                     correct |-> q.correct, explanation |-> q.explanation]
                               ELSE [id |-> q.id, content |-> q.content, options |-> q.options]],
                   results |->
                       [i \in 1..Len(doc.questions) |->
                           AttemptResultEntry(doc.questions[i], attempt_data.userAnswers,
                                              public_level, is_owner)]]

AttemptInit ==
    /\ OcrIdle
    /\ PipeIdle
    /\ StripIdle
    /\ CorpusIdle
    /\ ParseIdle
    /\ EvalIdle
    /\ AuxIdle
    /\ quiz \in {d \in QuizDocs : d.questions = QuestionsA}
    /\ attempts = {}
    /\ reqs = <<>>
    /\ playerResp = <<>>
    /\ attemptResp = <<>>

\* submit_quiz_answers(req) from the request to the response: the checks, the
\* stored attempt, the recalculated metrics and the response by public level
SubmitQuizAnswers ==
    /\ Len(reqs) < MaxCalls
    /\ \E auth \in Users \cup {NoAuth}, quiz_id \in QuizIdInputs,
          is_anonymous \in BOOLEAN, is_preview \in BOOLEAN, user_answers \in AnswerSheets :
         LET checked == SubmitCheck(quiz, attempts, Len(reqs) + 1, auth, quiz_id,
                                    is_anonymous, is_preview, user_answers)
         IN  IF checked.pc = "done"
             THEN /\ reqs' = Append(reqs, checked)
                  /\ UNCHANGED <<quiz, attempts>>
             ELSE /\ attempts' = attempts \cup {checked.attempt}
                  /\ quiz' = [quiz EXCEPT !.metrics = Metrics(attempts'),
                                          !.topPerformers = TopPerformers(attempts')]
                  /\ reqs' = Append(reqs, [pc |-> "done", attempt |-> <<>>, seen |-> {},
                                           resp |-> SubmitResponse(quiz, checked.attempt)])
    /\ UNCHANGED <<parseVars, evalVars, auxVars, playerResp, stripVars, corpusVars, resultVars,
                 pipeVars, ocrVars>>

\* get_attempt_result(req)
GetAttemptResult ==
    /\ \E auth \in Users \cup {NoAuth}, quiz_id \in QuizIdInputs, attempt_id \in AttemptIdInputs :
         attemptResp' = <<[auth |-> auth, quizId |-> quiz_id, attemptId |-> attempt_id,
                           result |-> AttemptResult(quiz, attempts, auth, quiz_id, attempt_id)]>>
    /\ UNCHANGED <<parseVars, evalVars, auxVars, quizVars, stripVars, corpusVars, pipeVars,
                 ocrVars>>

AttemptNext == SubmitQuizAnswers \/ GetAttemptResult

AttemptSpec == AttemptInit /\ [][AttemptNext]_vars

\* the keys of the entries of a response's per-question results
ResultKeys(response) ==
    IF "results" \in DOMAIN response
    THEN UNION {DOMAIN response.results[i] : i \in 1..Len(response.results)}
    ELSE {}

\* what a response discloses of the attempt's evaluation: its score and count
\* of correct answers, and the per-question isCorrect, correctAnswer, explanation
Discloses(response) ==
    (DOMAIN response \cap {"score", "correctCount"})
       \cup (IF "attempt" \in DOMAIN response
             THEN DOMAIN response.attempt \cap {"score", "correctCount"} ELSE {})
       \cup (ResultKeys(response) \cap {"isCorrect", "correctAnswer", "explanation"})

\* what a quiz of the given public level lets an attempt's creator see
AllowedAt(public_level) ==
    (IF public_level >= 1 THEN {"score", "correctCount"} ELSE {})
       \cup (IF public_level >= 2 THEN {"isCorrect"} ELSE {})
       \cup (IF public_level >= 3 THEN {"correctAnswer"} ELSE {})
       \cup (IF public_level >= 4 THEN {"explanation"} ELSE {})

\* C26: to a caller who created an attempt and is not the quiz owner, the
\* responses of submit_quiz_answers and of get_attempt_result disclose only
\* what the quiz's publicLevel allows: score and correctCount from level 1,
\* isCorrect from level 2, correctAnswer from level 3, explanation at level 4.
C26_DisclosureFollowsPublicLevel ==
    /\ \A i \in 1..Len(reqs) :
         ("attemptId" \in DOMAIN reqs[i].resp
             /\ \E a \in attempts : a.id = reqs[i].resp.attemptId /\ a.userId # quiz.userId) =>
                 Discloses(reqs[i].resp) \subseteq AllowedAt(quiz.publicLevel)
    /\ \A i \in 1..Len(attemptResp) :
         (~IsError(attemptResp[i].result) /\ attemptResp[i].auth # quiz.userId) =>
             Discloses(attemptResp[i].result) \subseteq AllowedAt(quiz.publicLevel)

(***************************************************************************)
(* Best-match alignment of eval.py                                         *)
(***************************************************************************)
\* The four scores of one (reference, candidate) pair.  The scorers are opaque:
\* BLEU and ROUGE-L are never negative, the BLEURT logit may be.
ScoreProfiles ==
    { [bleu |-> 0, rouge |-> 0, cosine |-> 0, bleurt |-> -1],
      [bleu |-> 1, rouge |-> 0, cosine |-> 1, bleurt |-> 0],
      [bleu |-> 0, rouge |-> 2, cosine |-> 0, bleurt |-> 1],
      [bleu |-> 2, rouge |-> 0, cosine |-> 2, bleurt |-> -1] }

\* samples: n_gt references, n_pred candidates, pair[i][j] the scores of
\* reference i against candidate j (both counted from 1)
Samples ==
    UNION {[n_gt : {g}, n_pred : {c}, pair : [1..g -> [1..c -> ScoreProfiles]]] :
              g \in 0..MaxRefs, c \in 0..MaxCands}

\* mutant: a later candidate with an equal combined score replaces the best one
LexicalStepLast(best, j, b_score, r_score) ==
    IF b_score + r_score >= best.max_b + best.max_r
    THEN [max_b |-> b_score, max_r |-> r_score, best_pred_idx |-> j]
    ELSE best

\* compute_lexical_recall: the body of the inner loop for candidate j (0-based);
\* combined > (max_b + max_r) / 2 compares the sums
LexicalStep(best, j, b_score, r_score) ==
    IF b_score + r_score > best.max_b + best.max_r
    THEN [max_b |-> b_score, max_r |-> r_score, best_pred_idx |-> j]
    ELSE best

\* compute_lexical_recall: the inner loop over the candidates of one reference
RECURSIVE LexicalRow(_, _, _)
LexicalRow(row, j, best) ==
    IF j >= Len(row) THEN best
    ELSE LexicalRow(row, j + 1, LexicalStep(best, j, row[j + 1].bleu, row[j + 1].rouge))

\* np.mean, kept as the pair of the sum and the count
Mean(xs) == [sum |-> Sum(xs), n |-> Len(xs)]

\* compute_lexical_recall(gt_texts, pred_texts)
compute_lexical_recall(smp) ==
    LET detailed_scores ==
            [i \in 1..smp.n_gt |->
                LexicalRow(smp.pair[i], 0, [max_b |-> 0, max_r |-> 0, best_pred_idx |-> -1])]
    IN  [detailed |-> detailed_scores,
         mean_bleu |-> Mean([i \in 1..smp.n_gt |-> detailed_scores[i].max_b]),
         mean_rouge |-> Mean([i \in 1..smp.n_gt |-> detailed_scores[i].max_r])]

\* np.argmax / torch.max(dim=1): the 0-based index of the first maximal value
ArgMax(xs) ==
    (CHOOSE j \in 1..Len(xs) :
        /\ \A k \in 1..Len(xs) : xs[j] >= xs[k]
        /\ \A k \in 1..(j - 1) : xs[k] < xs[j]) - 1

\* compute_bi_encoder_score(gt_texts, pred_texts, model, device)
compute_bi_encoder_score(smp) ==
    LET cos_scores == [i \in 1..smp.n_gt |-> [j \in 1..smp.n_pred |-> smp.pair[i][j].cosine]]
        detailed_scores ==
            [i \in 1..smp.n_gt |->
                [score |-> Max(Range(cos_scores[i])), best_pred_idx |-> ArgMax(cos_scores[i])]]
    IN  [detailed |-> detailed_scores,
         mean |-> Mean([i \in 1..smp.n_gt |-> detailed_scores[i].score])]

\* mutant: a candidate selected for the first reference is not offered to the others
compute_bleurt_score_no_reuse(smp) ==
    IF smp.n_gt = 0 \/ smp.n_pred = 0
    THEN [detailed |-> [i \in 1..smp.n_gt |-> [score |-> 0, best_pred_idx |-> -1]],
          mean |-> [sum |-> 0, n |-> 1]]
    ELSE LET score_matrix ==
                 [i \in 1..smp.n_gt |-> [j \in 1..smp.n_pred |-> smp.pair[i][j].bleurt]]
             first == ArgMax(score_matrix[1])
             Others(i) == {j \in 1..smp.n_pred : i = 1 \/ smp.n_pred = 1 \/ j - 1 # first}
             Pick(i) == CHOOSE j \in Others(i) :
                            /\ \A k \in Others(i) : score_matrix[i][j] >= score_matrix[i][k]
                            /\ \A k \in Others(i) : k < j => score_matrix[i][k] < score_matrix[i][j]
             detailed_scores ==
                 [i \in 1..smp.n_gt |->
                     [score |-> score_matrix[i][Pick(i)], best_pred_idx |-> Pick(i) - 1]]
         IN  [detailed |-> detailed_scores,
              mean |-> Mean([i \in 1..smp.n_gt |-> detailed_scores[i].score])]

\* compute_bleurt_score(gt_texts, pred_texts, model, tokenizer, device)
compute_bleurt_score(smp) ==
    IF smp.n_gt = 0 \/ smp.n_pred = 0
    THEN [detailed |-> [i \in 1..smp.n_gt |-> [score |-> 0, best_pred_idx |-> -1]],
          mean |-> [sum |-> 0, n |-> 1]]
    ELSE LET score_matrix ==
                 [i \in 1..smp.n_gt |-> [j \in 1..smp.n_pred |-> smp.pair[i][j].bleurt]]
             detailed_scores ==
                 [i \in 1..smp.n_gt |->
                     [score |-> Max(Range(score_matrix[i])),
                      best_pred_idx |-> ArgMax(score_matrix[i])]]
         IN  [detailed |-> detailed_scores,
              mean |-> Mean([i \in 1..smp.n_gt |-> detailed_scores[i].score])]

\* evaluate_sample(sample_id, gt_questions, pred_questions, ...): the three
\* alignments and the returned record
evaluate_sample(smp) ==
    IF smp.n_gt = 0 \/ smp.n_pred = 0
    THEN [lexical |-> <<>>, bi |-> <<>>, bleurt |-> <<>>,
          result |-> [n_gt |-> smp.n_gt, n_pred |-> smp.n_pred, error |-> "Missing questions"]]
    ELSE LET lexical_detailed == compute_lexical_recall(smp).detailed
             bi_detailed == compute_bi_encoder_score(smp).detailed
             bleurt_detailed == compute_bleurt_score(smp).detailed
         IN  [lexical |-> lexical_detailed, bi |-> bi_detailed, bleurt |-> bleurt_detailed,
              result |->
                 [n_gt |-> smp.n_gt, n_pred |-> smp.n_pred,
                  question_scores |->
                     [i \in 1..smp.n_gt |->
                         [matched_pred_idx |-> bleurt_detailed[i].best_pred_idx,
                          scores |-> [bleu4 |-> lexical_detailed[i].max_b,
                                      rougeL |-> lexical_detailed[i].max_r,
                                      cosine_sim |-> bi_detailed[i].score,
                                      bleurt |-> bleurt_detailed[i].score]]]]]

EvalInit ==
    /\ LateIdle
    /\ ParseIdle
    /\ QuizIdle
    /\ AuxIdle
    /\ sample \in Samples
    /\ evaluated = <<>>

EvaluateSample ==
    /\ evaluated = <<>>
    /\ evaluated' = <<evaluate_sample(sample)>>
    /\ UNCHANGED <<lateVars, parseVars, quizVars, sample, auxVars>>

EvalNext == EvaluateSample

EvalSpec == EvalInit /\ [][EvalNext]_vars

\* the sample was evaluated and both of its lists are non-empty
Aligned == evaluated # <<>> /\ sample.n_gt > 0 /\ sample.n_pred > 0

\* the scores of reference i under one metric, by candidate
MetricRow(i, metric) == [j \in 1..sample.n_pred |-> sample.pair[i][j][metric]]

\* the combined lexical score of reference i, by candidate
CombinedRow(i) ==
    [j \in 1..sample.n_pred |-> sample.pair[i][j].bleu + sample.pair[i][j].rouge]

\* the 0-based indices at which a row takes its maximum
Maximizers(row) == {j - 1 : j \in {k \in 1..Len(row) : \A m \in 1..Len(row) : row[k] >= row[m]}}

\* C8: for every reference item each aligner selects a candidate of maximal
\* score (the lexical aligner by its combined score), the smallest index on ties
C8_SelectsFirstArgmax ==
    Aligned =>
        \A i \in 1..sample.n_gt :
            /\ evaluated[1].lexical[i].best_pred_idx = Min(Maximizers(CombinedRow(i)))
            /\ evaluated[1].bi[i].best_pred_idx = Min(Maximizers(MetricRow(i, "cosine")))
            /\ evaluated[1].bleurt[i].best_pred_idx = Min(Maximizers(MetricRow(i, "bleurt")))

C10_OneValidEntryPerReference ==
    Aligned =>
        /\ Len(evaluated[1].lexical) = sample.n_gt
        /\ Len(evaluated[1].bi) = sample.n_gt
        /\ Len(evaluated[1].bleurt) = sample.n_gt
        /\ \A i \in 1..sample.n_gt :
             /\ evaluated[1].lexical[i].best_pred_idx \in 0..(sample.n_pred - 1)
             /\ evaluated[1].bi[i].best_pred_idx \in 0..(sample.n_pred - 1)
             /\ evaluated[1].bleurt[i].best_pred_idx \in 0..(sample.n_pred - 1)

\* the sample made of reference i alone, with all the candidates
SingleReference(i) ==
    [n_gt |-> 1, n_pred |-> sample.n_pred, pair |-> <<sample.pair[i]>>]

\* C23: the selection for one reference item depends only on that item's
\* scores against all candidates: under every aligner it is what the aligner
\* selects when the item is the only reference, whatever is selected for the
\* other items, so one candidate may be selected for several items.
C23_SelectionPerReferenceIndependent ==
    Aligned =>
        \A i \in 1..sample.n_gt :
            /\ evaluated[1].lexical[i] = compute_lexical_recall(SingleReference(i)).detailed[1]
            /\ evaluated[1].bi[i] = compute_bi_encoder_score(SingleReference(i)).detailed[1]
            /\ evaluated[1].bleurt[i] = compute_bleurt_score(SingleReference(i)).detailed[1]
            /\ evaluated[1].result.question_scores[i].matched_pred_idx
                  = evaluated[1].bleurt[i].best_pred_idx

\* C23 witness: with two candidates to choose from, two reference items were
\* given the same candidate by every aligner
C23_Witness ==
    /\ Aligned
    /\ sample.n_pred >= 2
    /\ \E i, k \in 1..sample.n_gt :
         /\ i # k
         /\ evaluated[1].lexical[i].best_pred_idx = evaluated[1].lexical[k].best_pred_idx
         /\ evaluated[1].lexical[i].best_pred_idx >= 0
         /\ evaluated[1].bi[i].best_pred_idx = evaluated[1].bi[k].best_pred_idx
         /\ evaluated[1].bleurt[i].best_pred_idx = evaluated[1].bleurt[k].best_pred_idx
         /\ evaluated[1].result.question_scores[i].matched_pred_idx
               = evaluated[1].result.question_scores[k].matched_pred_idx

\* C11: when the reference list or the candidate list of a sample is empty the
\* sample's result holds no scores and reports no error
C11_EmptyListsGiveEmptyResultNoError ==
    (evaluated # <<>> /\ (sample.n_gt = 0 \/ sample.n_pred = 0)) =>
        /\ "error" \notin DOMAIN evaluated[1].result
        /\ "question_scores" \in DOMAIN evaluated[1].result =>
               evaluated[1].result.question_scores = <<>>

(***************************************************************************)
(* Aggregation by source: eval.py main and compute_source_metrics          *)
(***************************************************************************)
Sources == {"race", "dream"}

\* a sample of the run: every reference is scored against at most one
\* candidate, odd and even references with different scores
BatchSample(n_gt, n_pred) ==
    [n_gt |-> n_gt, n_pred |-> n_pred,
     pair |-> [i \in 1..n_gt |-> [j \in 1..n_pred |->
                 IF i % 2 = 1
                 THEN [bleu |-> 1, rouge |-> 0, cosine |-> 1, bleurt |-> 0]
                 ELSE [bleu |-> 0, rouge |-> 2, cosine |-> 0, bleurt |-> 1]]]]

\* the runs: common_ids are 1..n, each id with its source and its questions
Batches ==
    UNION {{b \in [1..n -> [id : 1..n, source : Sources,
                            smp : {BatchSample(g, c) : g \in 0..MaxGroupRefs, c \in 0..1}]] :
               \A i \in 1..n : b[i].id = i} :
           n \in 1..MaxBatch}

\* get_source_from_data(data, sample_id)
get_source_from_data(gt_data, sample_id) ==
    IF \E i \in DOMAIN gt_data : gt_data[i].id = sample_id
    THEN gt_data[Min({i \in DOMAIN gt_data : gt_data[i].id = sample_id})].source
    ELSE "unknown"

\* the results that are no error records
valid_res(rs) == SelectSeq(rs, LAMBDA r : "error" \notin DOMAIN r)

\* compute_source_metrics: results_by_source[source]
results_by_source(rs, gt_data, source) ==
    SelectSeq(valid_res(rs), LAMBDA r : get_source_from_data(gt_data, r.id) = source)

\* compute_source_metrics: all_bleu, all_rouge, all_cosine, all_bleurt
RECURSIVE AllScores(_, _)
AllScores(source_results, metric) ==
    IF source_results = <<>> THEN <<>>
    ELSE LET scores == Head(source_results).question_scores
         IN  [i \in 1..Len(scores) |-> scores[i].scores[metric]]
                 \o AllScores(Tail(source_results), metric)

\* mutant: the samples are counted instead of their reference items
TotalGtSamples(source_results) == Len(source_results)

\* compute_source_metrics: total_gt
TotalGt(source_results) ==
    Sum([i \in 1..Len(source_results) |-> source_results[i].n_gt])

\* compute_source_metrics: total_pred
TotalPred(source_results) ==
    Sum([i \in 1..Len(source_results) |-> source_results[i].n_pred])

\* np.mean(xs) if xs else 0.0
MeanOrZero(xs) == IF xs # <<>> THEN Mean(xs) ELSE [sum |-> 0, n |-> 1]

\* gt_qs_map.get(sample_id, []): the reference questions of the sample of result r
gt_qs(r) == [i \in 1..r.n_gt |-> <<"gt", r.id, i - 1>>]

\* pred_qs_map.get(sample_id, []): its candidate questions
pred_qs(r) == [j \in 1..r.n_pred |-> <<"pred", r.id, j - 1>>]

\* mutant: every candidate of the sample goes to the corpus-level metrics
selected_pred_qs_all(r) == pred_qs(r)

\* compute_source_metrics: selected_pred_qs, the candidate at matched_pred_idx
\* of every entry of question_scores whose index is one of pred_qs
selected_pred_qs(r) ==
    LET best == [i \in 1..Len(r.question_scores) |-> r.question_scores[i].matched_pred_idx]
        kept == SelectSeq(best, LAMBDA b : b >= 0 /\ b < Len(pred_qs(r)))
    IN  [k \in 1..Len(kept) |-> pred_qs(r)[kept[k] + 1]]

\* format_question_text(q): the statement made of the question and its answer
format_question_text(q) == <<"text", q>>

\* extract_query_answer(q)
extract_query_answer(q) == <<<<"query", q>>, <<"answer", q>>>>

\* compute_source_metrics: the questions of the group's references, in order
RECURSIVE source_gt_qs(_)
source_gt_qs(source_results) ==
    IF source_results = <<>> THEN <<>>
    ELSE gt_qs(Head(source_results)) \o source_gt_qs(Tail(source_results))

\* compute_source_metrics: pred_qs_for_corpus of the group's samples, in order
RECURSIVE source_pred_qs(_)
source_pred_qs(source_results) ==
    IF source_results = <<>> THEN <<>>
    ELSE selected_pred_qs(Head(source_results)) \o source_pred_qs(Tail(source_results))

\* what one optional metric is called with for a group: mauve with the
\* texts, FBD with the queries and answers
MetricInputs(metric, qs) ==
    [i \in 1..Len(qs) |-> IF metric = "mauve" THEN format_question_text(qs[i])
                          ELSE extract_query_answer(qs[i])]

\* mauve_score = None, fbd_score = None
NoScore == <<>>

\* compute_source_metrics: the guard of an optional metric
MetricCalled(have, refs, cands) == have /\ refs # <<>> /\ cands # <<>>

\* mutant: one failing call leaves every optional metric of the run unavailable
MetricScoreAllOrNothing(source, metric, have, refs, cands) ==
    IF MetricCalled(have, refs, cands) /\ metric_raises = {}
    THEN <<metric, refs, cands>>
    ELSE NoScore

\* compute_source_metrics: the try block of an optional metric; its score is a
\* value of the texts it was given, None when the call raised or was not made
MetricScore(source, metric, have, refs, cands) ==
    IF MetricCalled(have, refs, cands) /\ <<source, metric>> \notin metric_raises
    THEN <<metric, refs, cands>>
    ELSE NoScore

\* the sources of the results that are no error records
ResultSources(rs, gt_data) ==
    {get_source_from_data(gt_data, valid_res(rs)[i].id) : i \in DOMAIN valid_res(rs)}

\* the calls compute_source_metrics makes to the optional metrics, each with
\* the group it is made for and what it is given
MetricCalls(rs, gt_data) ==
    LET Call(source, metric) ==
            LET source_results == results_by_source(rs, gt_data, source)
            IN  [source |-> source, metric |-> metric,
                 refs |-> MetricInputs(metric, source_gt_qs(source_results)),
                 cands |-> MetricInputs(metric, source_pred_qs(source_results))]
    IN  {c \in {Call(source, metric) : source \in ResultSources(rs, gt_data),
                                       metric \in {"mauve", "fbd"}} :
            MetricCalled(IF c.metric = "mauve" THEN HAVE_MAUVE ELSE HAVE_FBD, c.refs, c.cands)}

\* compute_source_metrics(results, gt_data, gt_qs_map, pred_qs_map)
compute_source_metrics(rs, gt_data) ==
    LET sources == ResultSources(rs, gt_data)
    IN  [source \in sources |->
            LET source_results == results_by_source(rs, gt_data, source)
                refs == source_gt_qs(source_results)
                cands == source_pred_qs(source_results)
            IN  [n_samples |-> Len(source_results),
                 mauve |-> MetricScore(source, "mauve", HAVE_MAUVE,
                                       MetricInputs("mauve", refs), MetricInputs("mauve", cands)),
                 fbd |-> MetricScore(source, "fbd", HAVE_FBD,
                                     MetricInputs("fbd", refs), MetricInputs("fbd", cands)),
                 total_gt_questions |-> TotalGt(source_results),
                 total_pred_questions |-> TotalPred(source_results),
                 avg_bleu |-> MeanOrZero(AllScores(source_results, "bleu4")),
                 avg_rouge |-> MeanOrZero(AllScores(source_results, "rougeL")),
                 avg_cosine |-> MeanOrZero(AllScores(source_results, "cosine_sim")),
                 avg_bleurt |-> MeanOrZero(AllScores(source_results, "bleurt"))]]

AggInit ==
    /\ LateIdle
    /\ ParseIdle
    /\ QuizIdle
    /\ EvalIdle
    /\ PoolIdle
    /\ KgIdle
    /\ FixIdle
    /\ batch \in Batches
    /\ sampleResults = <<>>
    /\ source_metrics = <<>>

\* main: one turn of the loop over common_ids
EvaluateNextSample ==
    /\ Len(sampleResults) < Len(batch)
    /\ LET sid == Len(sampleResults) + 1
       IN  sampleResults' =
               Append(sampleResults, [id |-> sid] @@ evaluate_sample(batch[sid].smp).result)
    /\ UNCHANGED <<lateVars, parseVars, quizVars, evalVars, batch, source_metrics, poolVars, kgVars, fixVars>>

\* main: the metrics of the run, computed when some sample was aligned
ComputeSourceMetrics ==
    /\ Len(sampleResults) = Len(batch)
    /\ source_metrics = <<>>
    /\ valid_res(sampleResults) # <<>>
    /\ source_metrics' = <<compute_source_metrics(sampleResults, batch)>>
    /\ metric_calls' = MetricCalls(sampleResults, batch)
    /\ UNCHANGED <<HAVE_MAUVE, HAVE_FBD, metric_raises, parseVars, quizVars, evalVars, batch,
                 sampleResults, poolVars, kgVars, fixVars, stripVars, resultVars, pipeVars,
                 ocrVars>>

AggNext == EvaluateNextSample \/ ComputeSourceMetrics

AggSpec == AggInit /\ [][AggNext]_vars

\* samples whose candidates differ: the first two references score highest
\* (BLEURT) against the last candidate, later references against the first
CorpusSample(n_gt, n_pred) ==
    [n_gt |-> n_gt, n_pred |-> n_pred,
     pair |-> [i \in 1..n_gt |-> [j \in 1..n_pred |->
                 [bleu |-> 1, rouge |-> 0, cosine |-> 1,
                  bleurt |-> IF j = (IF i <= 2 THEN n_pred ELSE 1) THEN 1 ELSE 0]]]]

\* runs for the corpus-level metrics: a sample has no reference (an error
\* record) or up to MaxRefs references and up to MaxCands candidates
CorpusBatches ==
    UNION {{b \in [1..n -> [id : 1..n, source : Sources,
                            smp : {CorpusSample(0, 1)} \cup
                                  {CorpusSample(g, c) : g \in 1..MaxRefs, c \in 1..MaxCands}]] :
               \A i \in 1..n : b[i].id = i} :
           n \in 1..MaxCorpusBatch}

\* a run with the optional metrics installed or not, and any of their calls failing
CorpusInit ==
    /\ OcrIdle
    /\ PipeIdle
    /\ ResultIdle
    /\ StripIdle
    /\ ParseIdle
    /\ QuizIdle
    /\ EvalIdle
    /\ PoolIdle
    /\ KgIdle
    /\ FixIdle
    /\ batch \in CorpusBatches
    /\ sampleResults = <<>>
    /\ source_metrics = <<>>
    /\ HAVE_MAUVE \in BOOLEAN
    /\ HAVE_FBD \in BOOLEAN
    /\ metric_raises \in SUBSET (Sources \X {"mauve", "fbd"})
    /\ \A c \in metric_raises : (c[2] = "mauve" => HAVE_MAUVE) /\ (c[2] = "fbd" => HAVE_FBD)
    /\ metric_calls = {}

CorpusSpec == CorpusInit /\ [][AggNext]_vars

\* the ids of a source's samples that have references and candidates
AlignedIds(source) ==
    {i \in DOMAIN batch :
        batch[i].source = source /\ batch[i].smp.n_gt > 0 /\ batch[i].smp.n_pred > 0}

\* the sum over a source's aligned samples of one number per sample
GroupSum(source, f(_)) ==
    Sum([i \in DOMAIN batch |-> IF i \in AlignedIds(source) THEN f(i) ELSE 0])

\* the sum of the scores reported for sample i under one metric
SampleScoreSum(i, metric) ==
    Sum([r \in 1..Len(sampleResults[i].question_scores) |->
            sampleResults[i].question_scores[r].scores[metric]])

\* C12: every source with aligned samples has a group; its total_gt_questions
\* is the sum of the reference counts of its aligned samples, and each of its
\* means is taken over exactly that many scores, those reported for the samples
C12_GroupTotalsAndMeans ==
    source_metrics # <<>> =>
        /\ DOMAIN source_metrics[1] = {src \in Sources : AlignedIds(src) # {}}
        /\ \A src \in DOMAIN source_metrics[1] :
             LET m == source_metrics[1][src]
                 total == GroupSum(src, LAMBDA i : batch[i].smp.n_gt)
             IN  /\ m.total_gt_questions = total
                 /\ m.avg_bleu = [sum |-> GroupSum(src, LAMBDA i : SampleScoreSum(i, "bleu4")),
                                  n |-> total]
                 /\ m.avg_rouge = [sum |-> GroupSum(src, LAMBDA i : SampleScoreSum(i, "rougeL")),
                                   n |-> total]
                 /\ m.avg_cosine =
                        [sum |-> GroupSum(src, LAMBDA i : SampleScoreSum(i, "cosine_sim")),
                         n |-> total]
                 /\ m.avg_bleurt = [sum |-> GroupSum(src, LAMBDA i : SampleScoreSum(i, "bleurt")),
                                    n |-> total]

\* C12 witness: three aligned samples of one source with 2, 3 and 1 references
\* give a total of 6 and means over 6 scores
C12_Witness ==
    /\ source_metrics # <<>>
    /\ Len(batch) = 3
    /\ \A i \in 1..3 : batch[i].source = "race" /\ batch[i].smp.n_pred = 1
    /\ batch[1].smp.n_gt = 2 /\ batch[2].smp.n_gt = 3 /\ batch[3].smp.n_gt = 1
    /\ source_metrics[1]["race"].total_gt_questions = 6
    /\ source_metrics[1]["race"].avg_bleurt.n = 6

\* the candidate reference i of sample sid scores highest against (BLEURT),
\* the first of them on ties, as an index from 0
BestCandidate(sid, i) ==
    Min(Maximizers([j \in 1..batch[sid].smp.n_pred |-> batch[sid].smp.pair[i][j].bleurt]))

\* the references of a source's aligned samples from sample sid on, each with
\* its best-matched candidate
RECURSIVE GroupMatches(_, _)
GroupMatches(source, sid) ==
    IF sid > Len(batch) THEN <<>>
    ELSE (IF sid \in AlignedIds(source)
          THEN [i \in 1..batch[sid].smp.n_gt |->
                   [ref |-> <<"gt", sid, i - 1>>,
                    cand |-> <<"pred", sid, BestCandidate(sid, i)>>]]
          ELSE <<>>) \o GroupMatches(source, sid + 1)

\* C24: for every source group with aligned samples, each installed
\* corpus-level metric (MAUVE, FBD) is called with the group's reference items
\* and, as candidates, the best-matched candidate of each of those reference
\* items, one per reference item in the same order, so the candidate set has
\* the size of the reference set.
C24_CorpusCandidatesAreBestMatches ==
    source_metrics # <<>> =>
        /\ \A src \in Sources, m \in {"mauve", "fbd"} :
               ((IF m = "mauve" THEN HAVE_MAUVE ELSE HAVE_FBD) /\ AlignedIds(src) # {}) =>
                   \E c \in metric_calls : c.source = src /\ c.metric = m
        /\ \A c \in metric_calls :
               LET matches == GroupMatches(c.source, 1)
               IN  /\ Len(c.cands) = Len(c.refs)
                   /\ Len(c.refs) = GroupSum(c.source, LAMBDA i : batch[i].smp.n_gt)
                   /\ c.refs = MetricInputs(c.metric,
                                            [k \in 1..Len(matches) |-> matches[k].ref])
                   /\ c.cands = MetricInputs(c.metric,
                                             [k \in 1..Len(matches) |-> matches[k].cand])

\* C24 witness: MAUVE was called for a group of two samples, one of them with
\* two references matched to the same one of its two candidates, the other
\* with one reference and two candidates
C24_Witness ==
    /\ source_metrics # <<>>
    /\ Len(batch) = 2
    /\ batch[1].source = batch[2].source
    /\ batch[1].smp.n_gt = 2 /\ batch[1].smp.n_pred = 2
    /\ batch[2].smp.n_gt = 1 /\ batch[2].smp.n_pred = 2
    /\ \E c \in metric_calls :
         /\ c.metric = "mauve"
         /\ Len(c.refs) = 3
         /\ c.cands = <<format_question_text(<<"pred", 1, 1>>),
                        format_question_text(<<"pred", 1, 1>>),
                        format_question_text(<<"pred", 2, 1>>)>>

\* C25: when the call of an optional corpus-level metric raises for one source
\* group, that field of the group is None; every group with aligned samples
\* is still returned with its totals and means, and every optional metric
\* whose own call did not raise is reported with its score, in that group and
\* in the others.
C25_MetricFailureIsLocal ==
    source_metrics # <<>> =>
        /\ C12_GroupTotalsAndMeans
        /\ \A c \in metric_calls :
               LET reported == source_metrics[1][c.source][c.metric]
               IN  IF <<c.source, c.metric>> \in metric_raises
                   THEN reported = NoScore
                   ELSE reported = <<c.metric, c.refs, c.cands>>

\* C25 witness: MAUVE raised for one of two groups; that group's FBD score and
\* the other group's MAUVE score are reported
C25_Witness ==
    /\ source_metrics # <<>>
    /\ DOMAIN source_metrics[1] = Sources
    /\ metric_raises = {<<"race", "mauve">>}
    /\ HAVE_FBD
    /\ \E c \in metric_calls : c.source = "race" /\ c.metric = "mauve"
    /\ source_metrics[1]["race"].mauve = NoScore
    /\ source_metrics[1]["race"].fbd # NoScore
    /\ source_metrics[1]["dream"].mauve # NoScore
    /\ source_metrics[1]["race"].total_gt_questions > 0

(***************************************************************************)
(* question.py main: the worker pool and the predictions list              *)
(***************************************************************************)
\* the inputs of a run: n items with distinct ids in any file order, k sets
\* per item, n * k jobs
Runs ==
    UNION {[items : {d \in [1..n -> [id : 1..n, source : {"race"}]] :
                        \A i, j \in 1..n : d[i].id = d[j].id => i = j},
            k : {k \in 1..MaxJobs : n * k <= MaxJobs}] :
           n \in 1..MaxJobs}

\* the jobs main submits: one per item and set index
Jobs == {<<data[i].id, set_idx>> : i \in DOMAIN data, set_idx \in 0..(num_sets - 1)}

\* the message of the exception generate_questions raised in a job
JobError(item_id, set_idx) == <<"Failed", item_id, set_idx>>

\* mutant: every job reports the set index 0
process_single_job_set0(item_id, set_idx) ==
    IF outcome[<<item_id, set_idx>>] = "ok"
    THEN <<item_id, 0, [questions |-> <<item_id, set_idx>>]>>
    ELSE <<item_id, 0, [error |-> JobError(item_id, set_idx)]>>

\* process_single_job(item, set_idx, ...): the tuple returned; the question
\* list of a successful job is a value of its own
process_single_job(item_id, set_idx) ==
    IF outcome[<<item_id, set_idx>>] = "ok"
    THEN <<item_id, set_idx, [questions |-> <<item_id, set_idx>>]>>
    ELSE <<item_id, set_idx, [error |-> JobError(item_id, set_idx)]>>

\* main: results_by_id, filled in the order of job_results
RECURSIVE OrganizeResults(_, _)
OrganizeResults(jrs, results_by_id) ==
    IF jrs = <<>> THEN results_by_id
    ELSE LET item_id == Head(jrs)[1]
             set_idx == Head(jrs)[2]
             sets_dict == IF item_id \in DOMAIN results_by_id
                          THEN results_by_id[item_id] ELSE <<>>
         IN  OrganizeResults(Tail(jrs),
                 (item_id :> ((set_idx :> Head(jrs)[3]) @@ sets_dict)) @@ results_by_id)

\* main: the loop over range(num_sets) for one item, left at the first error
RECURSIVE CollectSets(_, _, _)
CollectSets(sets_dict, set_idx, all_sets) ==
    IF set_idx >= num_sets THEN [has_error |-> FALSE, all_sets |-> all_sets]
    ELSE IF set_idx \in DOMAIN sets_dict
         THEN IF "error" \in DOMAIN sets_dict[set_idx]
              THEN [has_error |-> TRUE, error_msg |-> sets_dict[set_idx].error]
              ELSE CollectSets(sets_dict, set_idx + 1, Append(all_sets, sets_dict[set_idx]))
         ELSE [has_error |-> TRUE, error_msg |-> <<"Missing set", set_idx>>]

\* main: the prediction record of one item
Prediction(item, results_by_id) ==
    IF item.id \notin DOMAIN results_by_id
    THEN [id |-> item.id, source |-> item.source, error |-> <<"All jobs failed">>]
    ELSE LET c == CollectSets(results_by_id[item.id], 0, <<>>)
         IN  IF c.has_error
             THEN [id |-> item.id, source |-> item.source, error |-> c.error_msg]
             ELSE IF num_sets = 1
                  THEN [id |-> item.id, source |-> item.source,
                        generated_questions |-> c.all_sets[1]]
                  ELSE [id |-> item.id, source |-> item.source,
                        generated_questions |-> c.all_sets, num_sets |-> num_sets]

\* list.sort(key=lambda x: x["id"]): a stable sort by id
RECURSIVE SortById(_)
SortById(ps) ==
    IF ps = <<>> THEN <<>>
    ELSE LET rest == SortById(Tail(ps))
             before == SelectSeq(rest, LAMBDA p : p.id < Head(ps).id)
             after == SelectSeq(rest, LAMBDA p : p.id >= Head(ps).id)
         IN  before \o <<Head(ps)>> \o after

\* main: the final predictions built from job_results
BuildPredictionsList(jrs) ==
    LET results_by_id == OrganizeResults(jrs, <<>>)
    IN  SortById([i \in DOMAIN data |-> Prediction(data[i], results_by_id)])

PoolInit ==
    /\ LateIdle
    /\ ParseIdle
    /\ QuizIdle
    /\ EvalIdle
    /\ AggIdle
    /\ KgIdle
    /\ FixIdle
    /\ \E run \in Runs :
         /\ data = run.items
         /\ num_sets = run.k
         /\ outcome \in [{<<run.items[i].id, set_idx>> :
                            i \in DOMAIN run.items, set_idx \in 0..(run.k - 1)} ->
                         {"ok", "error"}]
    /\ job_results = <<>>
    /\ predictions = <<>>

\* as_completed yields one more finished job
JobCompletes ==
    /\ predictions = <<>>
    /\ \E job \in Jobs :
         /\ \A r \in 1..Len(job_results) : <<job_results[r][1], job_results[r][2]>> # job
         /\ job_results' = Append(job_results, process_single_job(job[1], job[2]))
    /\ UNCHANGED <<lateVars, parseVars, quizVars, evalVars, aggVars, kgVars, fixVars, data, num_sets, outcome,
                   predictions>>

\* all jobs are done: the predictions are built, sorted and saved
BuildPredictions ==
    /\ predictions = <<>>
    /\ Len(job_results) = Cardinality(Jobs)
    /\ predictions' = <<BuildPredictionsList(job_results)>>
    /\ UNCHANGED <<lateVars, parseVars, quizVars, evalVars, aggVars, kgVars, fixVars, data, num_sets, outcome,
                   job_results>>

PoolNext == JobCompletes \/ BuildPredictions

PoolSpec == PoolInit /\ [][PoolNext]_vars

\* the sets a success record carries, in the order it carries them
CarriedSets(rec) ==
    IF num_sets = 1 THEN <<rec.generated_questions>> ELSE rec.generated_questions

\* C13: whatever the completion order, the predictions hold one record per
\* input item, sorted by id; an item's record is a success with its k question
\* sets in set-index order iff all its k jobs returned without error, and
\* otherwise an error record with the error of its first failed set
C13_PredictionsIndependentOfOrder ==
    predictions # <<>> =>
        LET ps == predictions[1]
        IN  /\ Len(ps) = Len(data)
            /\ \A i \in 1..Len(ps) : ps[i].id = i
            /\ \A i \in 1..Len(ps) :
                 LET failed == {set_idx \in 0..(num_sets - 1) : outcome[<<i, set_idx>>] = "error"}
                 IN  IF failed = {}
                     THEN /\ "error" \notin DOMAIN ps[i]
                          /\ CarriedSets(ps[i]) =
                                 [n \in 1..num_sets |-> [questions |-> <<i, n - 1>>]]
                     ELSE /\ "generated_questions" \notin DOMAIN ps[i]
                          /\ ps[i].error = JobError(i, Min(failed))

\* C13 witness: two items with two sets each, listed in descending id order,
\* whose jobs completed in an order that is neither by item nor by set, one of
\* them failing
C13_Witness ==
    /\ predictions # <<>>
    /\ Len(data) = 2 /\ num_sets = 2
    /\ data[1].id = 2
    /\ job_results[1][1] = 2 /\ job_results[1][2] = 1
    /\ job_results[2][1] = 1 /\ job_results[2][2] = 1
    /\ job_results[3][1] = 2 /\ job_results[3][2] = 0
    /\ "error" \in DOMAIN predictions[1][1]
    /\ "generated_questions" \in DOMAIN predictions[1][2]

(***************************************************************************)
(* parser.py: the knowledge graph.  Python values as yaml.safe_load        *)
(* returns them: a tag and the value; a dict is the sequence of its        *)
(* (key, value) pairs in insertion order                                   *)
(***************************************************************************)
PyStr(x) == [t |-> "str", v |-> x]

PyInt(n) == [t |-> "int", v |-> n]

PyBool(b) == [t |-> "bool", v |-> b]

PyNone == [t |-> "NoneType", v |-> "None"]

PyList(xs) == [t |-> "list", v |-> xs]

PyDict(pairs) == [t |-> "dict", v |-> pairs]

\* key in d
DictHas(d, key) == \E i \in 1..Len(d.v) : d.v[i][1] = key

\* d.get(key, default)
DictGet(d, key, default) ==
    IF DictHas(d, key)
    THEN d.v[CHOOSE i \in 1..Len(d.v) : d.v[i][1] = key][2]
    ELSE default

\* str(value)
py_str(value) ==
    CASE value.t = "str" -> value.v
      [] value.t = "int" -> <<"0", "1", "2", "3", "4", "5", "6", "7", "8", "9">>[value.v + 1]
      [] value.t = "bool" -> IF value.v THEN "True" ELSE "False"
      [] value.t = "NoneType" -> "None"
      [] value.t = "list" -> IF value.v = <<>> THEN "[]" ELSE "[...]"
      [] value.t = "dict" -> IF value.v = <<>> THEN "{}" ELSE "{...}"

\* bool(value)
Truthy(value) ==
    CASE value.t = "str" -> value.v # ""
      [] value.t = "int" -> value.v # 0
      [] value.t = "bool" -> value.v
      [] value.t = "NoneType" -> FALSE
      [] value.t = "list" -> value.v # <<>>
      [] value.t = "dict" -> value.v # <<>>

\* _ensure_list(value)
ensure_list(value) ==
    IF value.t = "list"
    THEN [i \in 1..Len(value.v) |-> py_str(value.v[i])]
    ELSE IF Truthy(value) THEN <<py_str(value)>>
    ELSE <<>>

\* KnowledgeGraphMeta()
DefaultMeta ==
    [title |-> "", type |-> "", topic |-> <<>>, keywords |-> <<>>, tone |-> <<>>,
     author |-> "", date |-> ""]

\* KnowledgeGraphContext()
DefaultContext == [summary |-> "", main_points |-> <<>>]

\* KnowledgeGraph()
DefaultKnowledgeGraph ==
    [meta |-> DefaultMeta, context |-> DefaultContext, entities |-> <<>>,
     relationships |-> <<>>]

\* parse_knowledge_graph: the meta section
ParseMeta(kgdata) ==
    IF DictHas(kgdata, "meta") /\ DictGet(kgdata, "meta", PyNone).t = "dict"
    THEN LET meta == DictGet(kgdata, "meta", PyNone)
         IN  [title |-> py_str(DictGet(meta, "title", PyStr(""))),
              type |-> py_str(DictGet(meta, "type", PyStr(""))),
              topic |-> ensure_list(DictGet(meta, "topic", PyList(<<>>))),
              keywords |-> ensure_list(DictGet(meta, "keywords", PyList(<<>>))),
              tone |-> ensure_list(DictGet(meta, "tone", PyList(<<>>))),
              author |-> py_str(DictGet(meta, "author", PyStr(""))),
              date |-> py_str(DictGet(meta, "date", PyStr("")))]
    ELSE DefaultMeta

\* parse_knowledge_graph: the context section
ParseContext(kgdata) ==
    IF DictHas(kgdata, "context") /\ DictGet(kgdata, "context", PyNone).t = "dict"
    THEN LET context == DictGet(kgdata, "context", PyNone)
         IN  [summary |-> py_str(DictGet(context, "summary", PyStr(""))),
              main_points |-> ensure_list(DictGet(context, "main_points", PyList(<<>>)))]
    ELSE DefaultContext

\* parse_knowledge_graph: the records of the entities list that become an entity
KeepsEntity(entity_data) ==
    /\ entity_data.t = "dict"
    /\ py_str(DictGet(entity_data, "name", PyStr(""))) # ""

\* parse_knowledge_graph: the entity built from one record
Entity(entity_data) ==
    [name |-> py_str(DictGet(entity_data, "name", PyStr(""))),
     type |-> py_str(DictGet(entity_data, "type", PyStr("thing"))),
     attributes |-> SelectSeq(entity_data.v, LAMBDA kv : kv[1] \notin {"name", "type"})]

\* parse_knowledge_graph: the entities section
ParseEntities(kgdata) ==
    IF DictHas(kgdata, "entities") /\ DictGet(kgdata, "entities", PyNone).t = "list"
    THEN LET records == DictGet(kgdata, "entities", PyNone).v
             kept == SelectSeq(records, KeepsEntity)
         IN  [n \in 1..Len(kept) |-> Entity(kept[n])]
    ELSE <<>>

\* mutant: only records that carry a context are kept
KeepsRelationshipFour(rel_data) == rel_data.t = "list" /\ Len(rel_data.v) >= 4

\* parse_knowledge_graph: the records of the relationships list that are kept
KeepsRelationship(rel_data) == rel_data.t = "list" /\ Len(rel_data.v) >= 3

\* parse_knowledge_graph: the relationship built from one record
Relationship(rel_data) ==
    [source |-> py_str(rel_data.v[1]),
     action |-> py_str(rel_data.v[2]),
     target |-> py_str(rel_data.v[3]),
     context |-> IF Len(rel_data.v) > 3 THEN PyStr(py_str(rel_data.v[4])) ELSE PyNone]

\* parse_knowledge_graph: the relationships section
ParseRelationships(kgdata) ==
    IF DictHas(kgdata, "relationships") /\ DictGet(kgdata, "relationships", PyNone).t = "list"
    THEN LET records == DictGet(kgdata, "relationships", PyNone).v
             kept == SelectSeq(records, KeepsRelationship)
         IN  [n \in 1..Len(kept) |-> Relationship(kept[n])]
    ELSE <<>>

\* parse_knowledge_graph: the graph built from a loaded dict
BuildKnowledgeGraph(kgdata) ==
    [meta |-> ParseMeta(kgdata), context |-> ParseContext(kgdata),
     entities |-> ParseEntities(kgdata), relationships |-> ParseRelationships(kgdata)]

(***************************************************************************)
(* parser.py fix_broken_quotes                                             *)
(***************************************************************************)
\* characters matched by [\w\-_]
KeyChars == Range(UpperLetters) \cup Range(LowerLetters) \cup Digits \cup {"_", "-"}

\* the position of the colon that ends [indent][optional '- '][key] in line, or
\* 0 when the line does not start that way
KeyColon(line) ==
    LET l1 == LeadRun(line, Whitespace)
        r1 == Drop(line, l1)
        k1 == LeadRun(r1, KeyChars)
        l2 == IF r1 # <<>> /\ Head(r1) = "-" THEN 1 + LeadRun(Tail(r1), Whitespace) ELSE 0
        r2 == Drop(r1, l2)
        k2 == LeadRun(r2, KeyChars)
    IN  IF l2 > 0 /\ k2 >= 1 /\ Len(r2) > k2 /\ r2[k2 + 1] = ":" THEN l1 + l2 + k2 + 1
        ELSE IF k1 >= 1 /\ Len(r1) > k1 /\ r1[k1 + 1] = ":" THEN l1 + k1 + 1
        ELSE 0

\* re.match(r"^(\s*-?\s*[\w\-_]+:\s*)(.+)$", line): whether it matches, and
\* groups 1 and 2
MatchKeyValue(line) ==
    LET p == KeyColon(line)
        rest == Drop(line, p)
        w == LeadRun(rest, Whitespace)
    IN  IF p = 0 \/ rest = <<>> THEN [matched |-> FALSE]
        ELSE IF w = Len(rest)
             THEN [matched |-> TRUE, prefix |-> SubSeq(line, 1, Len(line) - 1),
                   group2 |-> <<line[Len(line)]>>]
             ELSE [matched |-> TRUE, prefix |-> SubSeq(line, 1, p + w),
                   group2 |-> Drop(rest, w)]

\* value.replace('"', '\\"')
RECURSIVE EscapeQuotes(_)
EscapeQuotes(value) ==
    IF value = <<>> THEN <<>>
    ELSE IF Head(value) = "\"" THEN <<"\\", "\"">> \o EscapeQuotes(Tail(value))
    ELSE <<Head(value)>> \o EscapeQuotes(Tail(value))

\* str.endswith(c), c one character
endswith(s, c) == s # <<>> /\ s[Len(s)] = c

\* fix_broken_quotes: the values it wraps
NeedsQuoting(value) ==
    /\ contains(value, <<"\"">>)
    /\ ~(startswith(value, <<"\"">>) /\ endswith(value, "\""))

\* fix_broken_quotes: what one line becomes
FixLine(line) ==
    LET match == MatchKeyValue(line)
    IN  IF ~match.matched THEN line
        ELSE LET value == strip(match.group2)
             IN  IF startswith(value, <<"{">>) \/ startswith(value, <<"[">>) THEN line
                 ELSE IF NeedsQuoting(value)
                      THEN match.prefix \o <<"\"">> \o EscapeQuotes(value) \o <<"\"">>
                      ELSE line

\* "\n".join(lines)
RECURSIVE JoinLines(_)
JoinLines(lines) ==
    IF Len(lines) = 1 THEN lines[1]
    ELSE lines[1] \o <<"\n">> \o JoinLines(Tail(lines))

\* fix_broken_quotes(yaml_string)
fix_broken_quotes(s) ==
    LET lines == split(s, <<"\n">>)
    IN  JoinLines([i \in 1..Len(lines) |-> FixLine(lines[i])])

\* the pieces the YAML blobs are made of
FixPieces ==
    { <<"k", ":", " ">>, <<"-", " ", "k", ":">>, <<"\"">>, <<"a">>, <<" ">>, <<"\\">>,
      <<"{">>, <<"\n">> }

YamlStrings == {Concat(cs) : cs \in UNION {[1..n -> FixPieces] : n \in 0..MaxPieces}}

FixInit ==
    /\ LateIdle
    /\ ParseIdle
    /\ QuizIdle
    /\ EvalIdle
    /\ AggIdle
    /\ PoolIdle
    /\ KgIdle
    /\ yaml_string \in YamlStrings
    /\ fixed_string = <<>>

FixBrokenQuotes ==
    /\ fixed_string = <<>>
    /\ fixed_string' = <<fix_broken_quotes(yaml_string)>>
    /\ UNCHANGED <<lateVars, parseVars, quizVars, evalVars, aggVars, poolVars, kgVars, yaml_string>>

FixNext == FixBrokenQuotes

FixSpec == FixInit /\ [][FixNext]_vars

\* whether the characters between the two quotes of a quoted scalar are well
\* formed: a backslash escapes the next character, and no quote is left bare
RECURSIVE QuotedBodyOk(_)
QuotedBodyOk(body) ==
    IF body = <<>> THEN TRUE
    ELSE IF Head(body) = "\\" THEN Len(body) >= 2 /\ QuotedBodyOk(Tail(Tail(body)))
    ELSE Head(body) # "\"" /\ QuotedBodyOk(Tail(body))

\* a well-formed double-quoted scalar
WellFormedQuoted(value) ==
    /\ Len(value) >= 2
    /\ value[1] = "\"" /\ value[Len(value)] = "\""
    /\ QuotedBodyOk(SubSeq(value, 2, Len(value) - 1))

\* C16: every key: value line whose value holds a double quote, is no
\* well-formed quoted scalar and opens no nested structure is rewritten: its
\* quotes are escaped, the value is wrapped in quotes, and the new value is a
\* well-formed quoted scalar
C16_RepairsEveryBrokenValue ==
    fixed_string # <<>> =>
        LET lines == split(yaml_string, <<"\n">>)
            fixed_lines == split(fixed_string[1], <<"\n">>)
        IN  /\ Len(fixed_lines) = Len(lines)
            /\ \A i \in 1..Len(lines) :
                 LET match == MatchKeyValue(lines[i])
                     value == strip(match.group2)
                 IN  ( /\ match.matched
                       /\ contains(value, <<"\"">>)
                       /\ ~WellFormedQuoted(value)
                       /\ ~startswith(value, <<"{">>) /\ ~startswith(value, <<"[">>) ) =>
                         /\ fixed_lines[i] =
                                match.prefix \o <<"\"">> \o EscapeQuotes(value) \o <<"\"">>
                         /\ WellFormedQuoted(Drop(fixed_lines[i], Len(match.prefix)))

(***************************************************************************)
(* parser.py parse_knowledge_graph: the blobs, what yaml.safe_load makes   *)
(* of them, and the steps of the function                                  *)
(***************************************************************************)
\* the blobs: one that fix_broken_quotes leaves alone, one it rewrites, and one
\* with a dangling quote that it leaves alone
KgBlobs ==
    { <<"k", ":", " ", "a">>,
      <<"k", ":", " ", "\"", "a", "\"", " ", "a">>,
      <<"k", ":", " ", "\"">> }

\* the values of a list-typed field
ListFieldValues ==
    { PyList(<<PyStr("a"), PyInt(1)>>), PyList(<<>>), PyStr("a"), PyStr(""), PyInt(0),
      PyInt(2), PyBool(FALSE), PyBool(TRUE), PyNone, PyDict(<<>>) }

\* the values of the meta section
MetaValues ==
    {PyStr("x"), PyDict(<<>>),
     PyDict(<< <<"title", PyStr("T")>>, <<"type", PyNone>>, <<"topic", PyList(<<PyStr("a")>>)>>,
               <<"date", PyInt(2)>> >>)}
        \cup {PyDict(<< <<f, x>> >>) : f \in {"topic", "keywords", "tone"}, x \in ListFieldValues}

\* the values of the context section
ContextValues ==
    {PyStr("x"), PyDict(<<>>), PyDict(<< <<"summary", PyStr("S")>> >>)}
        \cup {PyDict(<< <<"main_points", x>> >>) : x \in ListFieldValues}

\* the records of an entities list
EntityRecords ==
    {PyStr("x"), PyDict(<<>>),
     PyDict(<< <<"name", PyStr("Ann")>>, <<"type", PyStr("person")>>, <<"age", PyInt(3)>> >>)}
        \cup {PyDict(<< <<"name", x>> >>) :
                 x \in {PyStr(""), PyNone, PyStr("Ann"), PyInt(0), PyList(<<>>)}}

\* the records of a relationships list
RelationshipRecords ==
    {PyStr("x"), PyDict(<< <<"source", PyStr("a")>> >>),
     PyList(<<PyInt(1), PyNone, PyStr("b")>>),
     PyList(<<PyStr("a"), PyStr("to"), PyStr("b"), PyNone>>)}
        \cup {PyList(SubSeq(<<PyStr("a"), PyStr("to"), PyStr("b"), PyStr("ctx"), PyStr("more")>>,
                            1, n)) : n \in 0..5}

\* the lists of at most MaxRecords records
RecordLists(Records) == UNION {[1..n -> Records] : n \in 0..MaxRecords}

\* what yaml.safe_load can return: values that are no dict, and dicts with one
\* of the four sections or with all of them
LoadedValues ==
    {PyNone, PyStr("text"), PyList(<<PyStr("a")>>), PyDict(<<>>),
     PyDict(<< <<"meta", PyDict(<< <<"topic", PyInt(0)>> >>)>>,
               <<"context", PyDict(<< <<"main_points", PyStr("p")>> >>)>>,
               <<"entities", PyList(<<PyDict(<< <<"name", PyNone>> >>)>>)>>,
               <<"relationships", PyList(<<PyList(<<PyStr("a"), PyStr("to"), PyStr("b")>>)>>)>> >>)}
        \cup {PyDict(<< <<"meta", m>> >>) : m \in MetaValues}
        \cup {PyDict(<< <<"context", c>> >>) : c \in ContextValues}
        \cup {PyDict(<< <<"entities", e>> >>) :
                 e \in {PyStr("x")} \cup {PyList(rs) : rs \in RecordLists(EntityRecords)}}
        \cup {PyDict(<< <<"relationships", r>> >>) :
                 r \in {PyStr("x")} \cup {PyList(rs) : rs \in RecordLists(RelationshipRecords)}}

\* what a call of yaml.safe_load can do: return a value, raise a yaml.YAMLError,
\* or raise another exception (the constructors raise ValueError on scalars
\* such as the date 2023-02-30)
LoadOutcomes ==
    {[kind |-> "YAMLError", value |-> PyNone], [kind |-> "Exception", value |-> PyNone]}
        \cup {[kind |-> "value", value |-> v] : v \in LoadedValues}

\* mutant: the blob is repaired and parsed again also when the first parse
\* returned something that is no dict
RetriesAfterNonDict(loaded) ==
    loaded.kind = "YAMLError" \/ (loaded.kind = "value" /\ loaded.value.t # "dict")

\* parse_knowledge_graph: except yaml.YAMLError around the first parse
RetriesAfter(loaded) == loaded.kind = "YAMLError"

\* parse_knowledge_graph: what follows a call of yaml.safe_load on blob `from`
AfterLoad(loaded, from, retry) ==
    IF retry /\ RetriesAfter(loaded)
    THEN /\ kgpc' = "retry"
         /\ UNCHANGED <<kgData, kgOut>>
    ELSE IF loaded.kind = "value" /\ loaded.value.t = "dict"
    THEN /\ kgpc' = "build"
         /\ kgData' = <<[from |-> from, value |-> loaded.value]>>
         /\ UNCHANGED kgOut
    ELSE /\ kgpc' = "done"
         /\ kgOut' = <<[status |-> IF loaded.kind = "Exception" THEN "raised" ELSE "returned",
                        kg |-> DefaultKnowledgeGraph]>>
         /\ UNCHANGED kgData

KgInit ==
    /\ LateIdle
    /\ ParseIdle
    /\ QuizIdle
    /\ EvalIdle
    /\ AggIdle
    /\ PoolIdle
    /\ FixIdle
    /\ yaml_content \in KgBlobs
    /\ kgpc = "start"
    /\ kgCalls = <<>>
    /\ kgData = <<>>
    /\ kgOut = <<>>

\* data = yaml.safe_load(yaml_content)
KgLoadOriginal ==
    /\ kgpc = "start"
    /\ \E loaded \in LoadOutcomes :
         /\ kgCalls' = Append(kgCalls, [call |-> "safe_load", arg |-> yaml_content,
                                        kind |-> loaded.kind])
         /\ AfterLoad(loaded, "original", TRUE)
    /\ UNCHANGED <<lateVars, parseVars, quizVars, evalVars, aggVars, poolVars, fixVars, yaml_content>>

\* fixed_yaml = fix_broken_quotes(yaml_content); data = yaml.safe_load(fixed_yaml):
\* the same text fails in the same way
KgRetry ==
    /\ kgpc = "retry"
    /\ LET fixed_yaml == fix_broken_quotes(yaml_content)
       IN  \E loaded \in LoadOutcomes :
             /\ fixed_yaml = yaml_content => loaded.kind = "YAMLError"
             /\ kgCalls' = kgCalls \o
                    <<[call |-> "fix_broken_quotes", arg |-> yaml_content, kind |-> "value"],
                      [call |-> "safe_load", arg |-> fixed_yaml, kind |-> loaded.kind]>>
             /\ AfterLoad(loaded, "fixed", FALSE)
    /\ UNCHANGED <<lateVars, parseVars, quizVars, evalVars, aggVars, poolVars, fixVars, yaml_content>>

\* the four sections are read from data and kg is returned
KgBuild ==
    /\ kgpc = "build"
    /\ kgpc' = "done"
    /\ kgOut' = <<[status |-> "returned", kg |-> BuildKnowledgeGraph(kgData[1].value)]>>
    /\ UNCHANGED <<lateVars, parseVars, quizVars, evalVars, aggVars, poolVars, fixVars, yaml_content,
                   kgCalls, kgData>>

KgNext == KgLoadOriginal \/ KgRetry \/ KgBuild

KgSpec == KgInit /\ [][KgNext]_vars

\* the calls of yaml.safe_load made so far
LoadCalls == SelectSeq(kgCalls, LAMBDA c : c.call = "safe_load")

\* parse_knowledge_graph returned and built its result from a loaded dict
KgBuilt == kgpc = "done" /\ kgOut[1].status = "returned" /\ kgData # <<>>

\* the value of one section of the loaded dict
Section(name) == DictGet(kgData[1].value, name, PyNone)

\* C14: parse_knowledge_graph never raises, and when the parse of the blob and
\* the parse of the repaired blob both fail it returns the all-default graph
C14_ReturnsAndNeverRaises ==
    kgpc = "done" =>
        /\ kgOut[1].status = "returned"
        /\ (Len(LoadCalls) = 2 /\ \A i \in 1..2 : LoadCalls[i].kind # "value") =>
               kgOut[1].kg = DefaultKnowledgeGraph

\* C15: the first call parses the original blob; fix_broken_quotes is called
\* only after that parse has failed and is followed by one parse of its result,
\* the last call; and after a first parse that returned a dict the result is
\* built from that dict and no repair is made
C15_OriginalFirstRepairOnce ==
    /\ kgCalls # <<>> =>
           kgCalls[1] = [call |-> "safe_load", arg |-> yaml_content, kind |-> kgCalls[1].kind]
    /\ \A i \in 1..Len(kgCalls) :
           kgCalls[i].call = "fix_broken_quotes" =>
               /\ i = 2
               /\ kgCalls[1].kind \in {"YAMLError", "Exception"}
               /\ Len(kgCalls) = 3
               /\ kgCalls[3].call = "safe_load"
               /\ kgCalls[3].arg = fix_broken_quotes(yaml_content)
    /\ Len(LoadCalls) <= 2
    /\ \A i \in 2..Len(kgCalls) : kgCalls[i].call = "safe_load" => i = 3
    /\ (kgCalls # <<>> /\ kgCalls[1].kind = "value") =>
           /\ Len(kgCalls) = 1
           /\ kgData # <<>> => kgData[1].from = "original"
           /\ KgBuilt => kgOut[1].kg = BuildKnowledgeGraph(kgData[1].value)

\* C15 witness: the first parse failed, the repair changed the blob, and the
\* graph was built from the parse of the repaired blob
C15_Witness ==
    /\ KgBuilt
    /\ Len(kgCalls) = 3
    /\ kgCalls[3].arg # yaml_content
    /\ kgData[1].from = "fixed"

\* whether an entity record supplies a non-empty name
SuppliesName(entity_data) ==
    /\ entity_data.t = "dict"
    /\ DictHas(entity_data, "name")
    /\ DictGet(entity_data, "name", PyNone) # PyNone
    /\ DictGet(entity_data, "name", PyNone) # PyStr("")

\* C17: the entities of the returned graph are those of the source records that
\* supply a non-empty name, one each and in order; a record whose name is
\* absent, empty or null gives no entity
C17_EntitiesHaveSuppliedName ==
    (KgBuilt /\ Section("entities").t = "list") =>
        LET named == SelectSeq(Section("entities").v, SuppliesName)
        IN  /\ Len(kgOut[1].kg.entities) = Len(named)
            /\ \A n \in 1..Len(named) :
                 kgOut[1].kg.entities[n].name = py_str(DictGet(named[n], "name", PyNone))

\* what a list-typed field is to become
CoercedList(section, field) ==
    IF ~DictHas(section, field) THEN <<>>
    ELSE LET value == DictGet(section, field, PyNone)
         IN  IF value.t = "list" THEN [i \in 1..Len(value.v) |-> py_str(value.v[i])]
             ELSE <<py_str(value)>>

\* C18: each list-typed field of meta and context keeps a list element by
\* element, turns any other value that is present into a one-element list,
\* falsy values included, and is the empty list when the field is absent
C18_ListFieldsCoerced ==
    KgBuilt =>
        /\ Section("meta").t = "dict" =>
               /\ kgOut[1].kg.meta.topic = CoercedList(Section("meta"), "topic")
               /\ kgOut[1].kg.meta.keywords = CoercedList(Section("meta"), "keywords")
               /\ kgOut[1].kg.meta.tone = CoercedList(Section("meta"), "tone")
        /\ Section("context").t = "dict" =>
               kgOut[1].kg.context.main_points = CoercedList(Section("context"), "main_points")

\* the relationships the records rs are to give, in order
RECURSIVE ExpectedRelationships(_)
ExpectedRelationships(rs) ==
    IF rs = <<>> THEN <<>>
    ELSE LET r == Head(rs)
         IN  IF r.t = "list" /\ Len(r.v) >= 3
             THEN <<[source |-> py_str(r.v[1]), action |-> py_str(r.v[2]),
                     target |-> py_str(r.v[3]),
                     context |-> IF Len(r.v) >= 4 THEN PyStr(py_str(r.v[4])) ELSE PyNone]>>
                      \o ExpectedRelationships(Tail(rs))
             ELSE ExpectedRelationships(Tail(rs))

\* C19: the relationships of the returned graph are the source records that are
\* sequences of at least 3 elements, in order, with source, action and target
\* from elements 0, 1, 2 and the context from element 3 when there is one;
\* other records are dropped and the function still returns
C19_RelationshipsFromSequences ==
    /\ (kgpc = "done" /\ kgData # <<>>) => kgOut[1].status = "returned"
    /\ KgBuilt =>
           kgOut[1].kg.relationships =
               IF Section("relationships").t = "list"
               THEN ExpectedRelationships(Section("relationships").v)
               ELSE <<>>

\* C19 witness: a list with a record that is too short and a record with a
\* context gave one relationship, with that context
C19_Witness ==
    /\ KgBuilt
    /\ Section("relationships").t = "list"
    /\ Len(Section("relationships").v) = 2
    /\ Len(Section("relationships").v[1].v) = 2
    /\ Len(kgOut[1].kg.relationships) = 1
    /\ kgOut[1].kg.relationships[1].context = PyStr("ctx")

(***************************************************************************)
(* Headings of mixed depth: both parse_llm_output on well-formed questions *)
(***************************************************************************)
\* a well-formed question under a heading of `depth` '#' characters
HeadedQuestion(depth) ==
    [i \in 1..depth |-> "#"]
        \o <<" ", "Q", "\n", "-", " ", "x", "\n", "-", " ", "y", "\n", ">", " ", "B", "\n">>

\* texts of up to MaxQuestions well-formed questions, each under a heading of
\* depth 1 to 4
HeadedTexts ==
    {Concat([i \in 1..Len(depths) |-> HeadedQuestion(depths[i])]) :
        depths \in UNION {[1..n -> 1..4] : n \in 1..MaxQuestions}}

HeadingInit ==
    /\ LateIdle
    /\ QuizIdle
    /\ EvalIdle
    /\ AuxIdle
    /\ hasContent = TRUE
    /\ text \in HeadedTexts
    /\ call = "none"
    /\ demoOut = NoResult
    /\ evalOut = NoResult
    /\ demoGen = NoDoc
    /\ evalGen = [status |-> "idle", attempt |-> 0, output |-> <<>>, questions |-> <<>>]

HeadingNext == DemoParseCall \/ EvalParseCall

HeadingSpec == HeadingInit /\ [][HeadingNext]_vars

\* the number of lines of s that start with a heading marker
HeadingCount(s) ==
    Cardinality({i \in 1..Len(split(s, <<"\n">>)) : startswith(split(s, <<"\n">>)[i], <<"#">>)})

\* C20: a text of k well-formed questions under headings of mixed depth 1 to 4
\* yields k Questions, in parser.py and in question.py
C20_EveryHeadingStartsABlock ==
    /\ call = "demo_parse" => Len(demoOut.questions) = HeadingCount(text)
    /\ call = "eval_parse" =>
           evalOut.status = "returned" /\ Len(evalOut.questions) = HeadingCount(text)

\* ---------------------------------------------------------------------------
\* Question ids (parser.py parse_llm_output)
\* ---------------------------------------------------------------------------

\* C21: the ids of the Questions returned by parser.py's parse_llm_output are
\* 1, 2, ..., n in block order: the i-th returned Question has id i, and the
\* blocks the Questions come from are strictly increasing, so skipped and
\* dropped blocks consume no id and the numbering in the text plays no part.
C21_IdsAreSequential ==
    call = "demo_parse" =>
        /\ \A i \in 1..Len(demoOut.questions) : demoOut.questions[i].id = i
        /\ \A i \in 1..Len(demoOut.origin) - 1 : demoOut.origin[i] < demoOut.origin[i + 1]

\* two Questions with a skipped block between them; the text numbers both "1."
C21_Witness ==
    /\ call = "demo_parse"
    /\ text = ChunkQuestion \o ChunkHeading \o ChunkQuestion
    /\ Len(demoOut.questions) = 2
    /\ demoOut.origin[2] - demoOut.origin[1] = 2
    /\ demoOut.questions[2].id = 2

\* ---------------------------------------------------------------------------
\* The option-label stripping step (parser.py 371-378, question.py 139-153)
\* ---------------------------------------------------------------------------

\* what option texts are made of: label letters, the label punctuation,
\* blanks, a letter that is no label, and whole labels as generators write them
OptionPieces == {<<"A">>, <<"b">>, <<".">>, <<",">>, <<" ">>, <<"x">>,
                 <<"A", ".", " ">>, <<"b", ")", " ">>}

\* option_text = line[1:].strip() of the option lines "-" \o s
OptionTexts ==
    {strip(Concat(ps)) : ps \in UNION {[1..n -> OptionPieces] : n \in 0..MaxPieces}}

StripInit ==
    /\ OcrIdle
    /\ PipeIdle
    /\ ResultIdle
    /\ CorpusIdle
    /\ ParseIdle
    /\ QuizIdle
    /\ EvalIdle
    /\ AuxIdle
    /\ option_text \in OptionTexts
    /\ strip_results = <<>>

\* option_text = re.sub(r"^[A-Da-d][.)/]?,?\s+", "", option_text), on the
\* text as extracted and then on what the step returned
StripOptionLabel ==
    /\ Len(strip_results) < 2
    /\ strip_results' = Append(strip_results, StripLabel(IF strip_results = <<>> THEN option_text
                                               ELSE strip_results[Len(strip_results)]))
    /\ UNCHANGED <<parseVars, quizVars, evalVars, auxVars, option_text, corpusVars, resultVars,
                 pipeVars, ocrVars>>

StripNext == StripOptionLabel

StripSpec == StripInit /\ [][StripNext]_vars

\* C22: option-label stripping is idempotent: the stripping step applied to
\* an option text that has already been stripped returns it unchanged.
C22_StrippingIsIdempotent ==
    Len(strip_results) = 2 => strip_results[2] = strip_results[1]

(***************************************************************************)
(* The quiz pipeline of demo/functions/main.py: three functions triggered  *)
(* by every update of quizzes/{quiz_id}                                    *)
(***************************************************************************)
Handlers == {"process_ocr", "extract_info", "generate_questions"}

\* the status a handler waits for
TriggerStatus(handler) ==
    IF handler = "process_ocr" THEN "processing_ocr"
    ELSE IF handler = "extract_info" THEN "extracting_info"
    ELSE "generating_quiz"

\* mutant: the previous status is not looked at
HandlesAnyUpdateTo(handler, event) == event.after.status = TriggerStatus(handler)

\* the status check every handler starts with: the update set the status to
\* the handler's trigger status and the status was another one before
Handles(handler, event) ==
    /\ event.after.status = TriggerStatus(handler)
    /\ event.before.status # TriggerStatus(handler)

\* doc_ref.update(fields): the document after it
Updated(document, fields) ==
    [k \in DOMAIN document |-> IF k \in DOMAIN fields THEN fields[k] ELSE document[k]]

\* an update of the document is delivered to the three functions as an event
\* holding the document before and after it
Delivered(boxes, before, after) ==
    [h \in Handlers |-> Append(boxes[h], [before |-> before, after |-> after])]

\* a quiz document before its files are processed: with or without input
\* files, possibly with a knowledge graph of an earlier run, the clean-up of
\* the files wanted or not
PipeInit ==
    /\ OcrIdle
    /\ StripIdle
    /\ CorpusIdle
    /\ ResultIdle
    /\ ParseIdle
    /\ QuizIdle
    /\ EvalIdle
    /\ AuxIdle
    /\ pipeDoc \in [status : {"draft"}, hasInput : BOOLEAN, ocrText : {FALSE},
                    knowledgeGraph : BOOLEAN, questions : {FALSE},
                    deleteFilesAfterProcessing : BOOLEAN, errorMessage : {""}, title : {0}]
    /\ inbox = [h \in Handlers |-> <<>>]
    /\ acted = <<>>
    /\ extCalls = <<>>
    /\ cleanup = FALSE
    /\ edits = 0

\* the client starts the pipeline: an update that sets status to processing_ocr
ClientStart ==
    /\ pipeDoc.status = "draft"
    /\ pipeDoc' = Updated(pipeDoc, [status |-> "processing_ocr"])
    /\ inbox' = Delivered(inbox, pipeDoc, pipeDoc')
    /\ UNCHANGED <<acted, extCalls, cleanup, edits>>
    /\ UNCHANGED <<parseVars, quizVars, evalVars, auxVars, stripVars, corpusVars, resultVars,
                 ocrVars>>

\* the client changes another field of the document at any time
ClientEdit ==
    /\ edits < MaxEdits
    /\ edits' = edits + 1
    /\ pipeDoc' = Updated(pipeDoc, [title |-> pipeDoc.title + 1])
    /\ inbox' = Delivered(inbox, pipeDoc, pipeDoc')
    /\ UNCHANGED <<acted, extCalls, cleanup>>
    /\ UNCHANGED <<parseVars, quizVars, evalVars, auxVars, stripVars, corpusVars, resultVars,
                 ocrVars>>

\* a handler returns at its status check
SkipEvent(handler) ==
    /\ inbox[handler] # <<>>
    /\ ~Handles(handler, Head(inbox[handler]))
    /\ inbox' = [inbox EXCEPT ![handler] = Tail(@)]
    /\ UNCHANGED <<pipeDoc, acted, extCalls, cleanup, edits>>
    /\ UNCHANGED <<parseVars, quizVars, evalVars, auxVars, stripVars, corpusVars, resultVars,
                 ocrVars>>

\* what a handler that went past its check does to the variables: the event
\* is consumed and logged, the calls are logged, the document is updated
Acts(handler, calls, fields) ==
    /\ acted' = Append(acted, [handler |-> handler, event |-> Head(inbox[handler])])
    /\ extCalls' = extCalls \o calls
    /\ pipeDoc' = Updated(pipeDoc, fields)
    /\ inbox' = Delivered([inbox EXCEPT ![handler] = Tail(@)], pipeDoc, pipeDoc')

\* process_ocr and _process_ocr_async
ProcessOcr ==
    /\ inbox["process_ocr"] # <<>>
    /\ Handles("process_ocr", Head(inbox["process_ocr"]))
    /\ LET new_data == Head(inbox["process_ocr"]).after
       IN  IF ~new_data.hasInput
           THEN Acts("process_ocr", <<>>,
                     [status |-> "error", errorMessage |-> "No input provided"])
           ELSE \E ocr \in {"text", "empty", "raises"} :
                    Acts("process_ocr", <<[call |-> "ocr", outcome |-> ocr]>>,
                         IF ocr = "text"
                         THEN [ocrText |-> TRUE, status |-> "extracting_info"]
                         ELSE [status |-> "error", errorMessage |-> ocr])
    /\ UNCHANGED <<cleanup, edits>>
    /\ UNCHANGED <<parseVars, quizVars, evalVars, auxVars, stripVars, corpusVars, resultVars,
                 ocrVars>>

\* extract_info and _extract_info_async
ExtractInfo ==
    /\ inbox["extract_info"] # <<>>
    /\ Handles("extract_info", Head(inbox["extract_info"]))
    /\ LET new_data == Head(inbox["extract_info"]).after
       IN  IF ~new_data.ocrText
           THEN Acts("extract_info", <<>>, [status |-> "generating_quiz"])
           ELSE \E extraction \in {"graph", "raises"} :
                    Acts("extract_info", <<[call |-> "knowledge_graph", outcome |-> extraction]>>,
                         IF extraction = "graph"
                         THEN [knowledgeGraph |-> TRUE, status |-> "generating_quiz"]
                         ELSE [status |-> "generating_quiz"])
    /\ UNCHANGED <<cleanup, edits>>
    /\ UNCHANGED <<parseVars, quizVars, evalVars, auxVars, stripVars, corpusVars, resultVars,
                 ocrVars>>

\* generate_questions and _generate_questions_async up to the update that
\* stores the questions
GenerateQuestions ==
    /\ inbox["generate_questions"] # <<>>
    /\ Handles("generate_questions", Head(inbox["generate_questions"]))
    /\ LET new_data == Head(inbox["generate_questions"]).after
       IN  IF ~new_data.knowledgeGraph
           THEN /\ Acts("generate_questions", <<>>,
                        [status |-> "error", errorMessage |-> "No knowledge graph data found"])
                /\ UNCHANGED cleanup
           ELSE \E generation \in {"questions", "none", "raises"} :
                    /\ Acts("generate_questions",
                            <<[call |-> "question_generation", outcome |-> generation]>>,
                            IF generation = "questions"
                            THEN [questions |-> TRUE, status |-> "ready"]
                            ELSE [status |-> "error", errorMessage |-> generation])
                    /\ cleanup' = (generation = "questions"
                                     /\ new_data.deleteFilesAfterProcessing /\ new_data.hasInput)
    /\ UNCHANGED edits
    /\ UNCHANGED <<parseVars, quizVars, evalVars, auxVars, stripVars, corpusVars, resultVars,
                 ocrVars>>

\* _generate_questions_async after that update: the files are deleted; an
\* exception of storage.bucket() reaches the outer except
GenerateCleanup ==
    /\ cleanup
    /\ cleanup' = FALSE
    /\ \E deletion \in {"done", "raises"} :
         /\ extCalls' = Append(extCalls, [call |-> "cleanup", outcome |-> deletion])
         /\ IF deletion = "raises"
            THEN /\ pipeDoc' = Updated(pipeDoc, [status |-> "error", errorMessage |-> deletion])
                 /\ inbox' = Delivered(inbox, pipeDoc, pipeDoc')
            ELSE UNCHANGED <<pipeDoc, inbox>>
    /\ UNCHANGED <<acted, edits>>
    /\ UNCHANGED <<parseVars, quizVars, evalVars, auxVars, stripVars, corpusVars, resultVars,
                 ocrVars>>

PipeNext ==
    \/ ClientStart
    \/ ClientEdit
    \/ \E handler \in Handlers : SkipEvent(handler)
    \/ ProcessOcr
    \/ ExtractInfo
    \/ GenerateQuestions
    \/ GenerateCleanup

PipeSpec == PipeInit /\ [][PipeNext]_vars

\* every delivered event is handled, and a started clean-up is finished
PipeFairSpec ==
    /\ PipeSpec
    /\ \A handler \in Handlers : WF_vars(SkipEvent(handler))
    /\ WF_vars(ProcessOcr)
    /\ WF_vars(ExtractInfo)
    /\ WF_vars(GenerateQuestions)
    /\ WF_vars(GenerateCleanup)

\* the calls of one kind made so far
CallsOf(kind) == {i \in 1..Len(extCalls) : extCalls[i].call = kind}

\* the stages a handler has run so far
StagesOf(handler) == {i \in 1..Len(acted) : acted[i].handler = handler}

\* C27: once knowledge-graph extraction has failed and the document was moved
\* on to generating_quiz, the generate_questions stage that follows carries out
\* question generation, so the quiz is not left in status error with no
\* question generation attempted.
C27_ExtractionFailureDoesNotFailPipeline ==
    (/\ \E i \in CallsOf("knowledge_graph") : extCalls[i].outcome = "raises"
     /\ StagesOf("generate_questions") # {})
        => CallsOf("question_generation") # {}

\* the order of the statuses of the pipeline; ready and error end it
StatusRank(status) ==
    IF status = "draft" THEN 0
    ELSE IF status = "processing_ocr" THEN 1
    ELSE IF status = "extracting_info" THEN 2
    ELSE IF status = "generating_quiz" THEN 3
    ELSE 4

\* every stage run so far was run for an update that set the status to the
\* handler's trigger status from another status, and for no update twice
StagesFollowTransitions ==
    /\ \A i \in 1..Len(acted) :
         /\ acted[i].event.after.status = TriggerStatus(acted[i].handler)
         /\ acted[i].event.before.status # TriggerStatus(acted[i].handler)
    /\ \A handler \in Handlers : Cardinality(StagesOf(handler)) <= 1

\* C28: from the update that sets status to processing_ocr on, the status never
\* moves backwards in the order processing_ocr, extracting_info,
\* generating_quiz, ready/error, it eventually is ready or error, and every
\* stage is run only for an update that changed the status to the handler's
\* trigger status, at most once.
C28_StatusMovesForwardToTheEnd ==
    /\ [][StatusRank(pipeDoc'.status) >= StatusRank(pipeDoc.status)]_vars
    /\ (pipeDoc.status = "processing_ocr") ~> (pipeDoc.status \in {"ready", "error"})
    /\ []StagesFollowTransitions

\* the three stages have run, a client edit arrived in between, and the quiz
\* is ready
C28_Witness ==
    /\ pipeDoc.status = "ready"
    /\ edits = MaxEdits
    /\ \A handler \in Handlers : Cardinality(StagesOf(handler)) = 1
    /\ \A handler \in Handlers : inbox[handler] = <<>>

(***************************************************************************)
(* delete_quiz_attempt, running next to submit_quiz_answers calls          *)
(***************************************************************************)
\* delete_quiz_attempt up to attempt_ref.delete(): the checks of the request
DeleteCheck(doc, docs, auth, quiz_id, attempt_id) ==
    IF auth = NoAuth THEN Failed("unauthenticated")
    ELSE IF quiz_id = "" THEN Failed("invalid-argument")
    ELSE IF attempt_id = 0 THEN Failed("invalid-argument")
    ELSE IF quiz_id # QuizId THEN Failed("not-found")
    ELSE IF doc.userId # auth THEN Failed("permission-denied")
    ELSE IF ~\E a \in docs : a.id = attempt_id THEN Failed("not-found")
    ELSE [pc |-> "delete", attempt |-> CHOOSE a \in docs : a.id = attempt_id,
          seen |-> {}, resp |-> <<>>]

\* the request arrives: quiz_ref.get(), the owner check, attempt_ref.get()
DeleteStart(i) ==
    /\ reqs[i].pc = "new"
    /\ i > 1 => reqs[i - 1].pc # "new"
    /\ \E auth \in Users \cup {NoAuth}, quiz_id \in QuizIdInputs, attempt_id \in AttemptIdInputs :
         reqs' = [reqs EXCEPT ![i] = DeleteCheck(quiz, attempts, auth, quiz_id, attempt_id)]
    /\ UNCHANGED <<lateVars, parseVars, evalVars, auxVars, quiz, attempts, playerResp>>

\* attempt_ref.delete()
DeleteAttempt(i) ==
    /\ reqs[i].pc = "delete"
    /\ attempts' = {a \in attempts : a.id # reqs[i].attempt.id}
    /\ reqs' = [reqs EXCEPT ![i].pc = "delete_metrics"]
    /\ UNCHANGED <<lateVars, parseVars, evalVars, auxVars, quiz, playerResp>>

\* _update_quiz_metrics: quiz_ref.collection("attempts").stream()
DeleteMetricsRead(i) ==
    /\ reqs[i].pc = "delete_metrics"
    /\ reqs' = [reqs EXCEPT ![i].pc = "delete_update", ![i].seen = attempts]
    /\ UNCHANGED <<lateVars, parseVars, evalVars, auxVars, quiz, attempts, playerResp>>

\* _update_quiz_metrics: quiz_ref.update(...), then success is returned
DeleteMetricsWrite(i) ==
    /\ reqs[i].pc = "delete_update"
    /\ quiz' = [quiz EXCEPT !.metrics = Metrics(reqs[i].seen),
                            !.topPerformers = TopPerformers(reqs[i].seen)]
    /\ reqs' = [reqs EXCEPT ![i] = [pc |-> "done", attempt |-> <<>>, seen |-> {},
                                     resp |-> [success |-> TRUE]]]
    /\ UNCHANGED <<lateVars, parseVars, evalVars, auxVars, attempts, playerResp>>

TallyNext ==
    \E i \in 1..MaxCalls :
        \/ SubmitStart(i)
        \/ SubmitStore(i)
        \/ MetricsRead(i)
        \/ MetricsWrite(i)
        \/ DeleteStart(i)
        \/ DeleteAttempt(i)
        \/ DeleteMetricsRead(i)
        \/ DeleteMetricsWrite(i)

TallySpec == SubmitInit /\ [][TallyNext]_vars

\* C29: when every call has completed, metrics.totalResponses is the number
\* of attempt documents of the quiz and the entries of scoreDistribution sum
\* to totalResponses.
C29_MetricsMatchAttempts ==
    (\A i \in 1..MaxCalls : reqs[i].pc = "done") =>
        /\ quiz.metrics.totalResponses = Cardinality(attempts)
        /\ Sum(quiz.metrics.scoreDistribution) = quiz.metrics.totalResponses

(***************************************************************************)
(* perform_ocr of ocr_api.py                                               *)
(***************************************************************************)
\* image files: one whose name holds the digits 429
ImagePaths == {<<"a">>, <<"4", "2", "9">>}

\* str(e) of the OSError of open(image_path, "rb")
FileErrorMessage(path) == <<"E", "2", " ">> \o path

\* what the API raises for a rate limit, by status code or by name
RateLimitMessages ==
    {<<"4", "2", "9">>, <<"R", "a", "t", "e", "_", "l", "i", "m", "i", "t">>}

\* what the API raises otherwise
OtherErrorMessages == {<<"5", "0", "0">>}

\* message.content of a response
OcrTexts == {<<>>, <<"t">>}

\* "429" in error_message or "rate_limit" in error_message.lower()
IsRateLimitMessage(error_message) ==
    \/ contains(error_message, <<"4", "2", "9">>)
    \/ contains(lower(error_message), <<"r", "a", "t", "e", "_", "l", "i", "m", "i", "t">>)

\* one pass of the loop that ended in the except block
Raised(api, rate_limited, message) ==
    [api |-> api, raised |-> TRUE, rate_limited |-> rate_limited,
     message |-> message, text |-> <<>>]

\* the exceptions a pass can meet: open() fails before the API is called, the
\* API answers with a rate limit, the API fails otherwise
Exceptions(path) ==
    {Raised(FALSE, FALSE, FileErrorMessage(path))}
        \cup {Raised(TRUE, TRUE, m) : m \in RateLimitMessages}
        \cup {Raised(TRUE, FALSE, m) : m \in OtherErrorMessages}

\* perform_ocr(client, model, image_path, prompt, max_retries) is called
OcrInit ==
    /\ StripIdle
    /\ CorpusIdle
    /\ ResultIdle
    /\ PipeIdle
    /\ ParseIdle
    /\ QuizIdle
    /\ EvalIdle
    /\ AuxIdle
    /\ image_path \in ImagePaths
    /\ ocr_max_retries \in 0..MaxOcrRetries
    /\ retry_count = 0
    /\ ocr_pc = "loop"
    /\ ocr_log = <<>>
    /\ ocr_return = <<>>

\* a pass of the loop in which the API call succeeds: the text is returned
OcrSucceeds ==
    /\ ocr_pc = "loop"
    /\ retry_count <= ocr_max_retries
    /\ \E extracted_text \in OcrTexts :
         /\ ocr_log' = Append(ocr_log, [api |-> TRUE, raised |-> FALSE, rate_limited |-> FALSE,
                                        message |-> <<>>, text |-> extracted_text])
         /\ ocr_return' = extracted_text
    /\ ocr_pc' = "returned"
    /\ UNCHANGED <<image_path, ocr_max_retries, retry_count>>
    /\ UNCHANGED <<parseVars, quizVars, evalVars, auxVars, stripVars, corpusVars, resultVars,
                 pipeVars>>

\* a pass of the loop that ends in the except block
OcrRaises ==
    /\ ocr_pc = "loop"
    /\ retry_count <= ocr_max_retries
    /\ \E e \in Exceptions(image_path) :
         /\ ocr_log' = Append(ocr_log, e)
         /\ IF IsRateLimitMessage(e.message)
            THEN /\ retry_count' = retry_count + 1
                 /\ IF retry_count + 1 <= ocr_max_retries
                    THEN UNCHANGED <<ocr_pc, ocr_return>>
                    ELSE ocr_pc' = "returned" /\ ocr_return' = <<>>
            ELSE /\ ocr_pc' = "returned"
                 /\ ocr_return' = <<>>
                 /\ UNCHANGED retry_count
    /\ UNCHANGED <<image_path, ocr_max_retries>>
    /\ UNCHANGED <<parseVars, quizVars, evalVars, auxVars, stripVars, corpusVars, resultVars,
                 pipeVars>>

OcrNext ==
    \/ OcrSucceeds
    \/ OcrRaises

OcrSpec == OcrInit /\ [][OcrNext]_vars

\* the passes so far in which the API was called
ApiCalls == {i \in 1..Len(ocr_log) : ocr_log[i].api}

\* C30: perform_ocr makes at most max_retries + 1 passes and API calls; a pass
\* is followed by another one only when it met a rate-limit error; the text of
\* the successful call is returned; the empty string is returned when the last
\* pass met another error, or a rate-limit error with max_retries retries used.
C30_BoundedRetriesOnRateLimitOnly ==
    /\ Len(ocr_log) <= ocr_max_retries + 1
    /\ Cardinality(ApiCalls) <= ocr_max_retries + 1
    /\ \A i \in 1..(Len(ocr_log) - 1) : ocr_log[i].raised /\ ocr_log[i].rate_limited
    /\ (ocr_pc = "loop" /\ ocr_log # <<>>) =>
           ocr_log[Len(ocr_log)].raised /\ retry_count <= ocr_max_retries
    /\ ocr_pc = "returned" =>
           LET last == ocr_log[Len(ocr_log)]
           IN  /\ ~last.raised => ocr_return = last.text
               /\ last.raised => ocr_return = <<>>
               /\ (last.raised /\ last.rate_limited) => Len(ocr_log) = ocr_max_retries + 1
====
